---- MODULE Spec2Model ----
(***************************************************************************)
(* The Z80 machine-code emitter: Z80MCCodeEmitter::encodeInstruction, the  *)
(* fixup catalog and the relocation policy of the Z80 MC target            *)
(* description.  The encoder is a pure function of the instruction (and    *)
(* of the two build-time macros) that appends to a byte sink and to a      *)
(* fixup sink; a fatal error stops the process where it is raised, after   *)
(* whatever the call had already appended.                                 *)
(***************************************************************************)
EXTENDS Integers, Sequences, FiniteSets, TLC

\* ------------------------------------------------------------------------
\* Integer conversions and bit operations of the C++ expressions
\* ------------------------------------------------------------------------

\* static_cast<uint8_t>(x), and the implicit conversion of emitByte's argument
uint8_t(x) == x % 256

\* static_cast<uint16_t>(x)
uint16_t(x) == x % 65536

\* x << n on a promoted unsigned value
shl(x, n) == x * (2 ^ n)

\* x >> n on an unsigned value
shr(x, n) == x \div (2 ^ n)

RECURSIVE BitOr(_, _)
\* x | y on non-negative values
BitOr(x, y) ==
  IF x = 0 THEN y
  ELSE IF y = 0 THEN x
  ELSE (IF x % 2 = 1 \/ y % 2 = 1 THEN 1 ELSE 0) + 2 * BitOr(x \div 2, y \div 2)

RECURSIVE BitAnd(_, _)
\* x & y on non-negative values
BitAnd(x, y) ==
  IF x = 0 \/ y = 0 THEN 0
  ELSE (IF x % 2 = 1 /\ y % 2 = 1 THEN 1 ELSE 0) + 2 * BitAnd(x \div 2, y \div 2)

\* ------------------------------------------------------------------------
\* MCOperand, MCInst, MCFixup
\* ------------------------------------------------------------------------

\* An operand is [kind |-> "Reg", reg |-> r], [kind |-> "Imm", imm |-> v] or
\* [kind |-> "Expr", expr |-> e]; reading the payload of another kind is an
\* evaluation error, as it is an assertion failure in MCOperand.
isReg(op) == op.kind = "Reg"

isImm(op) == op.kind = "Imm"

isExpr(op) == op.kind = "Expr"

getReg(op) == op.reg

getImm(op) == op.imm

getExpr(op) == op.expr

\* MCExpr::getKind
getKind(e) == e.kind

\* Operands[i] of the instruction (the source indexes from 0)
Operands(MI, i) == MI.Operands[i + 1]

\* MCFixup::create(Offset, Value, Kind, Loc)
MCFixup(Offset, Value, Kind, Loc) ==
  [offset |-> Offset, value |-> Value, kind |-> Kind, loc |-> Loc]

\* ------------------------------------------------------------------------
\* The running call: s = [OS, Fixups, CurByte, fatal, msg]
\* ------------------------------------------------------------------------

\* report_fatal_error never returns: nothing after it runs
Failed(s) == s.fatal

\* Fixups.push_back(F)
push_back(F, s) == [s EXCEPT !.Fixups = Append(@, F)]

\* emitByte writing the byte and counting it twice
emitByte_Twice(C, s) ==
  [s EXCEPT !.OS = Append(Append(@, uint8_t(C)), uint8_t(C)),
            !.CurByte = @ + 2]

\* emitByte: OS << C; ++CurByte
emitByte(C, s) ==
  [s EXCEPT !.OS = Append(@, uint8_t(C)), !.CurByte = @ + 1]

RECURSIVE emitBytes(_, _)
\* consecutive emitByte calls, in order
emitBytes(Cs, s) ==
  IF Cs = <<>> THEN s ELSE emitBytes(Tail(Cs), emitByte(Head(Cs), s))

\* report_fatal_error(Msg)
report_fatal_error(Msg, s) == [s EXCEPT !.fatal = TRUE, !.msg = Msg]

\* report_fatal_instr_problem(opc, er): "<opc>: <er>"
report_fatal_instr_problem(opc, er, s) == report_fatal_error(er, s)

\* check_num_operands(opc, expct, actual)
check_num_operands(opc, expct, actual, s) ==
  IF expct # actual
    THEN report_fatal_error("Invalid number of arguments for instruction", s)
    ELSE s

\* ------------------------------------------------------------------------
\* The opcode switch of encodeInstruction, one operator per case
\* ------------------------------------------------------------------------

\* case CALL16 creating the fixup after the placeholder bytes
case_CALL16_FixupLate(MI, numOperands, s) ==
  LET s1 == check_num_operands(MI.opcode, 1, numOperands, s)
  IN IF Failed(s1) THEN s1 ELSE
  LET s2 == emitByte(\hcd, s1)
  IN IF isExpr(Operands(MI, 0))
       THEN LET s3 == emitBytes(<<0, 0>>, s2)
            IN push_back(MCFixup(s3.CurByte, getExpr(Operands(MI, 0)), "fixup_16", MI.loc), s3)
       ELSE IF isImm(Operands(MI, 0))
              THEN emitBytes(<<BitAnd(shr(uint16_t(getImm(Operands(MI, 0))), 0), \hff), BitAnd(shr(uint16_t(getImm(Operands(MI, 0))), 8), \hff)>>, s2)
              ELSE report_fatal_instr_problem(MI.opcode, "Operand should be an expression or immediate.", s2)

\* case LD8gg/LD8xx/LD8yy fetching IX into HL and never storing it back
case_LD8gg_NoWriteBack(MI, numOperands, s) ==
  LET s1 == check_num_operands(MI.opcode, 2, numOperands, s)
  IN IF Failed(s1) THEN s1 ELSE
  emitBytes(<<\he5, \hdd, \he5, \he1, \h60, \he1>>, s1)

\* case LD16mo emitting the high byte of the immediate first
case_LD16mo_HighFirst(MI, numOperands, s) ==
  LET s1 == check_num_operands(MI.opcode, 2, numOperands, s)
  IN IF Failed(s1) THEN s1 ELSE
  IF ~(isReg(Operands(MI, 1)) /\ isImm(Operands(MI, 0)))
    THEN report_fatal_instr_problem(MI.opcode, "Second operand should be register.", s1)
    ELSE emitBytes(<<\hed, \h43, BitAnd(shr(uint16_t(getImm(Operands(MI, 0))), 8), \hff), BitAnd(shr(uint16_t(getImm(Operands(MI, 0))), 0), \hff)>>, s1)

\* case CP8ao with the displacement before the opcode byte
case_CP8ao_DisplacementFirst(MI, numOperands, s) ==
  LET s1 == check_num_operands(MI.opcode, 2, numOperands, s)
  IN IF Failed(s1) THEN s1 ELSE
  IF ~(isReg(Operands(MI, 0)) /\ isImm(Operands(MI, 1)))
    THEN report_fatal_instr_problem(MI.opcode, "First operand should be register.", s1)
    ELSE IF getReg(Operands(MI, 0)) \notin {"IX", "IY"}
           THEN report_fatal_instr_problem(MI.opcode, "Allowed registers are IX, IY.", s1)
           ELSE emitBytes(<<IF getReg(Operands(MI, 0)) = "IX" THEN \hdd ELSE \hfd,
                            getImm(Operands(MI, 1)), \hbe>>, s1)

\* case BIT8bo with the bit index shifted into bits 4..6
case_BIT8bo_ShiftFour(MI, numOperands, s) ==
  LET s1 == check_num_operands(MI.opcode, 3, numOperands, s)
  IN IF Failed(s1) THEN s1 ELSE
  IF ~(isImm(Operands(MI, 0)) /\ isReg(Operands(MI, 1)) /\ isImm(Operands(MI, 2)))
    THEN report_fatal_instr_problem(MI.opcode, "First operand should be immediate.", s1)
    ELSE IF getReg(Operands(MI, 1)) \notin {"IX", "IY"}
           THEN report_fatal_instr_problem(MI.opcode, "Allowed registers are IX, IY.", s1)
           ELSE emitBytes(<<IF getReg(Operands(MI, 1)) = "IX" THEN \hdd ELSE \hfd,
                            \hcb, getImm(Operands(MI, 2)),
                            BitOr(shl(uint8_t(getImm(Operands(MI, 0))), 4), \h46)>>, s1)

\* case LEA16ro adding into the base register whatever the destination
case_LEA16ro_IntoBase(MI, numOperands, s) ==
  LET s1 == check_num_operands(MI.opcode, 3, numOperands, s)
  IN IF Failed(s1) THEN s1 ELSE
  IF ~(isReg(Operands(MI, 0)) /\ isReg(Operands(MI, 1)) /\ isImm(Operands(MI, 2)))
    THEN report_fatal_instr_problem(MI.opcode, "First two operands should be registers.", s1)
    ELSE IF getReg(Operands(MI, 1)) \notin {"IX", "IY"}
           THEN report_fatal_instr_problem(MI.opcode, "Allowed registers in the second operand are IX, IY.", s1)
           ELSE emitBytes(<<\hf5, \hc5, 6, 0, \h0e, getImm(Operands(MI, 2)),
                            IF getReg(Operands(MI, 1)) = "IX" THEN \hdd ELSE \hfd,
                            9, \hc1, \hf1>>, s1)

\* the not-implemented arm emitting a prefix byte before it gives up
case_ADC16SP_PrefixFirst(MI, numOperands, s) ==
  report_fatal_instr_problem(MI.opcode, "Not implemented.", emitByte(\hed, s))

\* case LD8gg/LD8xx/LD8yy saving AF around the shuffle between the index halves
case_LD8gg_SaveFlags(MI, numOperands, s) ==
  LET s1 == check_num_operands(MI.opcode, 2, numOperands, s)
  IN IF Failed(s1) THEN s1 ELSE
  emitBytes(<<\hf5, \he5, \hd5, \hdd, \he5, \he1, \hfd, \he5, \hd1, \h62,
              \he5, \hdd, \he1, \hd1, \he1, \hf1>>, s1)

\* case ADD16aa without the test that both operands are the same register
case_ADD16aa_AnyPair(MI, numOperands, s) ==
  LET s1 == check_num_operands(MI.opcode, 2, numOperands, s)
  IN IF Failed(s1) THEN s1 ELSE
  IF ~(isReg(Operands(MI, 0)) /\ isReg(Operands(MI, 1)))
    THEN report_fatal_instr_problem(MI.opcode, "Both operands should be registers.", s1)
    ELSE LET s4 == CASE getReg(Operands(MI, 0)) = "HL" -> s1
                     [] getReg(Operands(MI, 0)) = "IX" -> emitByte(\hdd, s1)
                     [] getReg(Operands(MI, 0)) = "IY" -> emitByte(\hfd, s1)
                     [] OTHER ->
                          report_fatal_instr_problem(MI.opcode, "Allowed registers are HL, IX, IY.", s1)
         IN IF Failed(s4) THEN s4 ELSE emitByte(\h29, s4)

\* case LD8oi with the stored immediate before the displacement
case_LD8oi_ImmediateFirst(MI, numOperands, s) ==
  LET s1 == check_num_operands(MI.opcode, 3, numOperands, s)
  IN IF Failed(s1) THEN s1 ELSE
  IF ~(isReg(Operands(MI, 0)))
    THEN report_fatal_instr_problem(MI.opcode, "First operand should be register.", s1)
    ELSE IF ~(isImm(Operands(MI, 1)) /\ isImm(Operands(MI, 2)))
           THEN report_fatal_instr_problem(MI.opcode, "Second and third  operand should be immediate.", s1)
           ELSE IF getReg(Operands(MI, 0)) \notin {"IX", "IY"}
                  THEN report_fatal_instr_problem(MI.opcode, "Allowed registers are IX, IY.", s1)
                  ELSE emitBytes(<<IF getReg(Operands(MI, 0)) = "IX" THEN \hdd ELSE \hfd,
                                   \h36, getImm(Operands(MI, 2)),
                                   getImm(Operands(MI, 1))>>, s1)

\* case ADD8ai refusing an immediate that does not fit a byte
case_ADD8ai_RangeChecked(MI, numOperands, s) ==
  LET s1 == check_num_operands(MI.opcode, 1, numOperands, s)
  IN IF Failed(s1) THEN s1 ELSE
  IF ~(isImm(Operands(MI, 0)))
    THEN report_fatal_instr_problem(MI.opcode, "Operand should be immediate.", s1)
    ELSE IF getImm(Operands(MI, 0)) < -128 \/ getImm(Operands(MI, 0)) > 255
           THEN report_fatal_instr_problem(MI.opcode, "Immediate out of range.", s1)
           ELSE emitBytes(<<\hc6, getImm(Operands(MI, 0))>>, s1)


\* case LD8gg/LD8xx/LD8yy leaving the saved HL on the stack
case_LD8gg_NoRestore(MI, numOperands, s) ==
  LET s1 == check_num_operands(MI.opcode, 2, numOperands, s)
  IN IF Failed(s1) THEN s1 ELSE
  emitBytes(<<\he5, \hd5, \hdd, \he5, \he1, \hfd, \he5, \hd1, \h62,
              \he5, \hdd, \he1, \hd1>>, s1)

\* case CALL16CC taking an expression of any kind for its target
case_CALL16CC_AnyTarget(MI, numOperands, s) ==
  LET s1 == check_num_operands(MI.opcode, 2, numOperands, s)
  IN IF Failed(s1) THEN s1 ELSE
  IF ~(isImm(Operands(MI, 1)))
    THEN report_fatal_instr_problem(MI.opcode, "Second operand should be immediate.", s1)
    ELSE IF 8 <= uint8_t(getImm(Operands(MI, 1)))
           THEN report_fatal_instr_problem(MI.opcode, "Second operand should be in range 0..7.", s1)
           ELSE LET s2 == emitByte(BitOr(shl(uint8_t(getImm(Operands(MI, 1))), 3), \hc4), s1)
                IN IF isExpr(Operands(MI, 0))
                     THEN LET s3 == push_back(MCFixup(s2.CurByte, getExpr(Operands(MI, 0)), "fixup_16", MI.loc), s2)
                          IN emitBytes(<<0, 0>>, s3)
                     ELSE IF isImm(Operands(MI, 0))
                            THEN emitBytes(<<BitAnd(shr(uint16_t(getImm(Operands(MI, 0))), 0), \hff), BitAnd(shr(uint16_t(getImm(Operands(MI, 0))), 8), \hff)>>, s2)
                            ELSE report_fatal_instr_problem(MI.opcode, "First operand should be an expression or immediate.", s2)
\* case Z80::ADC8ai (lines 150-157)
case_ADC8ai(MI, numOperands, s) ==
  LET s1 == check_num_operands(MI.opcode, 1, numOperands, s)
  IN IF Failed(s1) THEN s1 ELSE
  IF ~(isImm(Operands(MI, 0)))
    THEN report_fatal_instr_problem(MI.opcode, "Operand should be immediate.", s1)
    ELSE emitBytes(<<\hce, getImm(Operands(MI, 0))>>, s1)

\* case Z80::ADC8ao (lines 158-179)
case_ADC8ao(MI, numOperands, s) ==
  LET s1 == check_num_operands(MI.opcode, 2, numOperands, s)
  IN IF Failed(s1) THEN s1 ELSE
  IF ~(isReg(Operands(MI, 0)))
    THEN report_fatal_instr_problem(MI.opcode, "First operand should be register.", s1)
    ELSE IF ~(isImm(Operands(MI, 1)))
           THEN report_fatal_instr_problem(MI.opcode, "Second operand should be immediate.", s1)
           ELSE LET s4 == CASE getReg(Operands(MI, 0)) = "IX" ->
                                 emitByte(\hdd, s1)
                            [] getReg(Operands(MI, 0)) = "IY" ->
                                 emitByte(\hfd, s1)
                            [] OTHER ->
                                 report_fatal_instr_problem(MI.opcode, "Allowed registers are IX, IY.", s1)
                IN IF Failed(s4) THEN s4 ELSE
                emitBytes(<<\h8e, getImm(Operands(MI, 1))>>, s4)

\* case Z80::ADC8ap (lines 180-193)
case_ADC8ap(MI, numOperands, s) ==
  LET s1 == check_num_operands(MI.opcode, 1, numOperands, s)
  IN IF Failed(s1) THEN s1 ELSE
  IF ~(isReg(Operands(MI, 0)))
    THEN report_fatal_instr_problem(MI.opcode, "Operand should be register.", s1)
    ELSE LET s2 == CASE getReg(Operands(MI, 0)) = "HL" ->
                          s1
                     [] OTHER ->
                          report_fatal_instr_problem(MI.opcode, "The only allowed register is HL.", s1)
         IN IF Failed(s2) THEN s2 ELSE
         emitByte(\h8e, s2)

\* case Z80::ADC8ar (lines 194-257)
case_ADC8ar(MI, numOperands, s) ==
  LET s1 == check_num_operands(MI.opcode, 1, numOperands, s)
  IN IF Failed(s1) THEN s1 ELSE
  IF ~(isReg(Operands(MI, 0)))
    THEN report_fatal_instr_problem(MI.opcode, "Operand should be register.", s1)
    ELSE CASE getReg(Operands(MI, 0)) = "A" ->
                emitByte(\h8f, s1)
           [] getReg(Operands(MI, 0)) = "B" ->
                emitByte(\h88, s1)
           [] getReg(Operands(MI, 0)) = "C" ->
                emitByte(\h89, s1)
           [] getReg(Operands(MI, 0)) = "D" ->
                emitByte(\h8a, s1)
           [] getReg(Operands(MI, 0)) = "E" ->
                emitByte(\h8b, s1)
           [] getReg(Operands(MI, 0)) = "H" ->
                emitByte(\h8c, s1)
           [] getReg(Operands(MI, 0)) = "L" ->
                emitByte(\h8d, s1)
           [] getReg(Operands(MI, 0)) = "IXH" ->
                emitBytes(<<\he5, \hdd, \he5, \he1, \h8c, \he1>>, s1)
           [] getReg(Operands(MI, 0)) = "IXL" ->
                emitBytes(<<\he5, \hdd, \he5, \he1, \h8d, \he1>>, s1)
           [] getReg(Operands(MI, 0)) = "IYH" ->
                emitBytes(<<\he5, \hfd, \he5, \he1, \h8c, \he1>>, s1)
           [] getReg(Operands(MI, 0)) = "IYL" ->
                emitBytes(<<\he5, \hfd, \he5, \he1, \h8d, \he1>>, s1)
           [] OTHER ->
                report_fatal_instr_problem(MI.opcode, "Allowed register are A, B, C, D, E, H, L.", s1)

\* case Z80::ADD16SP (lines 258-280)
case_ADD16SP(MI, numOperands, s) ==
  LET s1 == check_num_operands(MI.opcode, 2, numOperands, s)
  IN IF Failed(s1) THEN s1 ELSE
  IF ~(isReg(Operands(MI, 0)) /\ isReg(Operands(MI, 1)))
    THEN report_fatal_instr_problem(MI.opcode, "Both operands should be registers.", s1)
    ELSE IF getReg(Operands(MI, 0)) # getReg(Operands(MI, 1))
           THEN report_fatal_instr_problem(MI.opcode, "Both operands should be the same register.", s1)
           ELSE LET s4 == CASE getReg(Operands(MI, 0)) = "HL" ->
                                 s1
                            [] getReg(Operands(MI, 0)) = "IX" ->
                                 emitByte(\hdd, s1)
                            [] getReg(Operands(MI, 0)) = "IY" ->
                                 emitByte(\hfd, s1)
                            [] OTHER ->
                                 report_fatal_instr_problem(MI.opcode, "Allowed registers are HL, IX, IY.", s1)
                IN IF Failed(s4) THEN s4 ELSE
                emitByte(\h39, s4)

\* case Z80::ADD16aa (lines 281-303)
case_ADD16aa(MI, numOperands, s) ==
  LET s1 == check_num_operands(MI.opcode, 2, numOperands, s)
  IN IF Failed(s1) THEN s1 ELSE
  IF ~(isReg(Operands(MI, 0)) /\ isReg(Operands(MI, 1)))
    THEN report_fatal_instr_problem(MI.opcode, "Both operands should be registers.", s1)
    ELSE IF getReg(Operands(MI, 0)) # getReg(Operands(MI, 1))
           THEN report_fatal_instr_problem(MI.opcode, "Both operands should be the same register.", s1)
           ELSE LET s4 == CASE getReg(Operands(MI, 0)) = "HL" ->
                                 s1
                            [] getReg(Operands(MI, 0)) = "IX" ->
                                 emitByte(\hdd, s1)
                            [] getReg(Operands(MI, 0)) = "IY" ->
                                 emitByte(\hfd, s1)
                            [] OTHER ->
                                 report_fatal_instr_problem(MI.opcode, "Allowed registers are HL, IX, IY.", s1)
                IN IF Failed(s4) THEN s4 ELSE
                emitByte(\h29, s4)

\* case Z80::ADD16ao (lines 304-338)
case_ADD16ao(MI, numOperands, s) ==
  LET s1 == check_num_operands(MI.opcode, 3, numOperands, s)
  IN IF Failed(s1) THEN s1 ELSE
  IF ~(isReg(Operands(MI, 0)) /\ isReg(Operands(MI, 1)) /\ isReg(Operands(MI, 2)))
    THEN report_fatal_instr_problem(MI.opcode, "All operands should be registers.", s1)
    ELSE IF getReg(Operands(MI, 0)) # getReg(Operands(MI, 1))
           THEN report_fatal_instr_problem(MI.opcode, "First two of the operands should be the same register.", s1)
           ELSE LET s4 == CASE getReg(Operands(MI, 0)) = "HL" ->
                                 s1
                            [] getReg(Operands(MI, 0)) = "IX" ->
                                 emitByte(\hdd, s1)
                            [] getReg(Operands(MI, 0)) = "IY" ->
                                 emitByte(\hfd, s1)
                            [] OTHER ->
                                 report_fatal_instr_problem(MI.opcode, "Allowed first two registers are HL, IX, IY.", s1)
                IN IF Failed(s4) THEN s4 ELSE
                CASE getReg(Operands(MI, 2)) = "BC" ->
                       emitByte(9, s4)
                  [] getReg(Operands(MI, 2)) = "DE" ->
                       emitByte(\h19, s4)
                  [] OTHER ->
                       report_fatal_instr_problem(MI.opcode, "Allowed last registers are BC, DE.", s4)

\* case Z80::ADD8ai (lines 339-346)
case_ADD8ai(MI, numOperands, s) ==
  LET s1 == check_num_operands(MI.opcode, 1, numOperands, s)
  IN IF Failed(s1) THEN s1 ELSE
  IF ~(isImm(Operands(MI, 0)))
    THEN report_fatal_instr_problem(MI.opcode, "Operand should be immediate.", s1)
    ELSE emitBytes(<<\hc6, getImm(Operands(MI, 0))>>, s1)

\* case Z80::ADD8ao (lines 347-368)
case_ADD8ao(MI, numOperands, s) ==
  LET s1 == check_num_operands(MI.opcode, 2, numOperands, s)
  IN IF Failed(s1) THEN s1 ELSE
  IF ~(isReg(Operands(MI, 0)))
    THEN report_fatal_instr_problem(MI.opcode, "First operand should be register.", s1)
    ELSE IF ~(isImm(Operands(MI, 1)))
           THEN report_fatal_instr_problem(MI.opcode, "Second operand should be immediate.", s1)
           ELSE LET s4 == CASE getReg(Operands(MI, 0)) = "IX" ->
                                 emitByte(\hdd, s1)
                            [] getReg(Operands(MI, 0)) = "IY" ->
                                 emitByte(\hfd, s1)
                            [] OTHER ->
                                 report_fatal_instr_problem(MI.opcode, "Allowed registers are IX, IY.", s1)
                IN IF Failed(s4) THEN s4 ELSE
                emitBytes(<<\h86, getImm(Operands(MI, 1))>>, s4)

\* case Z80::ADD8ap (lines 369-382)
case_ADD8ap(MI, numOperands, s) ==
  LET s1 == check_num_operands(MI.opcode, 1, numOperands, s)
  IN IF Failed(s1) THEN s1 ELSE
  IF ~(isReg(Operands(MI, 0)))
    THEN report_fatal_instr_problem(MI.opcode, "Operand should be register.", s1)
    ELSE LET s2 == CASE getReg(Operands(MI, 0)) = "HL" ->
                          s1
                     [] OTHER ->
                          report_fatal_instr_problem(MI.opcode, "The only allowed register is HL.", s1)
         IN IF Failed(s2) THEN s2 ELSE
         emitByte(\h86, s2)

\* case Z80::ADD8ar (lines 383-446)
case_ADD8ar(MI, numOperands, s) ==
  LET s1 == check_num_operands(MI.opcode, 1, numOperands, s)
  IN IF Failed(s1) THEN s1 ELSE
  IF ~(isReg(Operands(MI, 0)))
    THEN report_fatal_instr_problem(MI.opcode, "Operand should be register.", s1)
    ELSE CASE getReg(Operands(MI, 0)) = "A" ->
                emitByte(\h87, s1)
           [] getReg(Operands(MI, 0)) = "B" ->
                emitByte(\h80, s1)
           [] getReg(Operands(MI, 0)) = "C" ->
                emitByte(\h81, s1)
           [] getReg(Operands(MI, 0)) = "D" ->
                emitByte(\h82, s1)
           [] getReg(Operands(MI, 0)) = "E" ->
                emitByte(\h83, s1)
           [] getReg(Operands(MI, 0)) = "H" ->
                emitByte(\h84, s1)
           [] getReg(Operands(MI, 0)) = "L" ->
                emitByte(\h85, s1)
           [] getReg(Operands(MI, 0)) = "IXH" ->
                emitBytes(<<\he5, \hdd, \he5, \he1, \h84, \he1>>, s1)
           [] getReg(Operands(MI, 0)) = "IXL" ->
                emitBytes(<<\he5, \hdd, \he5, \he1, \h85, \he1>>, s1)
           [] getReg(Operands(MI, 0)) = "IYH" ->
                emitBytes(<<\he5, \hfd, \he5, \he1, \h84, \he1>>, s1)
           [] getReg(Operands(MI, 0)) = "IYL" ->
                emitBytes(<<\he5, \hfd, \he5, \he1, \h85, \he1>>, s1)
           [] OTHER ->
                report_fatal_instr_problem(MI.opcode, "Allowed register are A, B, C, D, E, H, L.", s1)

\* case Z80::AND8ai (lines 447-454)
case_AND8ai(MI, numOperands, s) ==
  LET s1 == check_num_operands(MI.opcode, 1, numOperands, s)
  IN IF Failed(s1) THEN s1 ELSE
  IF ~(isImm(Operands(MI, 0)))
    THEN report_fatal_instr_problem(MI.opcode, "Operand should be immediate.", s1)
    ELSE emitBytes(<<\he6, getImm(Operands(MI, 0))>>, s1)

\* case Z80::AND8ao (lines 455-476)
case_AND8ao(MI, numOperands, s) ==
  LET s1 == check_num_operands(MI.opcode, 2, numOperands, s)
  IN IF Failed(s1) THEN s1 ELSE
  IF ~(isReg(Operands(MI, 0)))
    THEN report_fatal_instr_problem(MI.opcode, "First operand should be register.", s1)
    ELSE IF ~(isImm(Operands(MI, 1)))
           THEN report_fatal_instr_problem(MI.opcode, "Second operand should be immediate.", s1)
           ELSE LET s4 == CASE getReg(Operands(MI, 0)) = "IX" ->
                                 emitByte(\hdd, s1)
                            [] getReg(Operands(MI, 0)) = "IY" ->
                                 emitByte(\hfd, s1)
                            [] OTHER ->
                                 report_fatal_instr_problem(MI.opcode, "Allowed registers are IX, IY.", s1)
                IN IF Failed(s4) THEN s4 ELSE
                emitBytes(<<\ha6, getImm(Operands(MI, 1))>>, s4)

\* case Z80::AND8ap (lines 477-490)
case_AND8ap(MI, numOperands, s) ==
  LET s1 == check_num_operands(MI.opcode, 1, numOperands, s)
  IN IF Failed(s1) THEN s1 ELSE
  IF ~(isReg(Operands(MI, 0)))
    THEN report_fatal_instr_problem(MI.opcode, "Operand should be register.", s1)
    ELSE LET s2 == CASE getReg(Operands(MI, 0)) = "HL" ->
                          s1
                     [] OTHER ->
                          report_fatal_instr_problem(MI.opcode, "The only allowed register is HL.", s1)
         IN IF Failed(s2) THEN s2 ELSE
         emitByte(\ha6, s2)

\* case Z80::AND8ar (lines 491-554)
case_AND8ar(MI, numOperands, s) ==
  LET s1 == check_num_operands(MI.opcode, 1, numOperands, s)
  IN IF Failed(s1) THEN s1 ELSE
  IF ~(isReg(Operands(MI, 0)))
    THEN report_fatal_instr_problem(MI.opcode, "Operand should be register.", s1)
    ELSE CASE getReg(Operands(MI, 0)) = "A" ->
                emitByte(\ha7, s1)
           [] getReg(Operands(MI, 0)) = "B" ->
                emitByte(\ha0, s1)
           [] getReg(Operands(MI, 0)) = "C" ->
                emitByte(\ha1, s1)
           [] getReg(Operands(MI, 0)) = "D" ->
                emitByte(\ha2, s1)
           [] getReg(Operands(MI, 0)) = "E" ->
                emitByte(\ha3, s1)
           [] getReg(Operands(MI, 0)) = "H" ->
                emitByte(\ha4, s1)
           [] getReg(Operands(MI, 0)) = "L" ->
                emitByte(\ha5, s1)
           [] getReg(Operands(MI, 0)) = "IXH" ->
                emitBytes(<<\he5, \hdd, \he5, \he1, \ha4, \he1>>, s1)
           [] getReg(Operands(MI, 0)) = "IXL" ->
                emitBytes(<<\he5, \hdd, \he5, \he1, \ha5, \he1>>, s1)
           [] getReg(Operands(MI, 0)) = "IYH" ->
                emitBytes(<<\he5, \hfd, \he5, \he1, \ha4, \he1>>, s1)
           [] getReg(Operands(MI, 0)) = "IYL" ->
                emitBytes(<<\he5, \hfd, \he5, \he1, \ha5, \he1>>, s1)
           [] OTHER ->
                report_fatal_instr_problem(MI.opcode, "Allowed register are A, B, C, D, E, H, L.", s1)

\* case Z80::BIT8bg (lines 555-658)
case_BIT8bg(MI, numOperands, s) ==
  LET s1 == check_num_operands(MI.opcode, 2, numOperands, s)
  IN IF Failed(s1) THEN s1 ELSE
  IF ~(isImm(Operands(MI, 0)))
    THEN report_fatal_instr_problem(MI.opcode, "First operand should be immediate.", s1)
    ELSE IF ~(isReg(Operands(MI, 1)))
           THEN report_fatal_instr_problem(MI.opcode, "Second operand should be register.", s1)
           ELSE IF 8 <= uint8_t(getImm(Operands(MI, 0)))
                  THEN report_fatal_instr_problem(MI.opcode, "First operand should be in range 0..7.", s1)
                  ELSE CASE getReg(Operands(MI, 1)) = "A" ->
                              emitBytes(<<\hcb, BitOr(shl(uint8_t(getImm(Operands(MI, 0))), 3), \h47)>>, s1)
                         [] getReg(Operands(MI, 1)) = "B" ->
                              emitBytes(<<\hcb, BitOr(shl(uint8_t(getImm(Operands(MI, 0))), 3), \h40)>>, s1)
                         [] getReg(Operands(MI, 1)) = "C" ->
                              emitBytes(<<\hcb, BitOr(shl(uint8_t(getImm(Operands(MI, 0))), 3), \h41)>>, s1)
                         [] getReg(Operands(MI, 1)) = "D" ->
                              emitBytes(<<\hcb, BitOr(shl(uint8_t(getImm(Operands(MI, 0))), 3), \h42)>>, s1)
                         [] getReg(Operands(MI, 1)) = "E" ->
                              emitBytes(<<\hcb, BitOr(shl(uint8_t(getImm(Operands(MI, 0))), 3), \h43)>>, s1)
                         [] getReg(Operands(MI, 1)) = "H" ->
                              emitBytes(<<\hcb, BitOr(shl(uint8_t(getImm(Operands(MI, 0))), 3), \h44)>>, s1)
                         [] getReg(Operands(MI, 1)) = "L" ->
                              emitBytes(<<\hcb, BitOr(shl(uint8_t(getImm(Operands(MI, 0))), 3), \h45)>>, s1)
                         [] getReg(Operands(MI, 1)) = "IXH" ->
                              emitBytes(<<\he5, \hdd, \he5, \he1, \hcb, BitOr(shl(uint8_t(getImm(Operands(MI, 0))), 3), \h44), \he5, \hdd, \he1, \he1>>, s1)
                         [] getReg(Operands(MI, 1)) = "IXL" ->
                              emitBytes(<<\he5, \hdd, \he5, \he1, \hcb, BitOr(shl(uint8_t(getImm(Operands(MI, 0))), 3), \h45), \he5, \hdd, \he1, \he1>>, s1)
                         [] getReg(Operands(MI, 1)) = "IYH" ->
                              emitBytes(<<\he5, \hfd, \he5, \he1, \hcb, BitOr(shl(uint8_t(getImm(Operands(MI, 0))), 3), \h44), \he5, \hfd, \he1, \he1>>, s1)
                         [] getReg(Operands(MI, 1)) = "IYL" ->
                              emitBytes(<<\he5, \hfd, \he5, \he1, \hcb, BitOr(shl(uint8_t(getImm(Operands(MI, 0))), 3), \h45), \he5, \hfd, \he1, \he1>>, s1)
                         [] OTHER ->
                              report_fatal_instr_problem(MI.opcode, "Allowed register are A, B, C, D, E, H, L.", s1)

\* case Z80::BIT8bo (lines 659-688)
case_BIT8bo(MI, numOperands, s) ==
  LET s1 == check_num_operands(MI.opcode, 3, numOperands, s)
  IN IF Failed(s1) THEN s1 ELSE
  IF ~(isImm(Operands(MI, 0)))
    THEN report_fatal_instr_problem(MI.opcode, "First operand should be immediate.", s1)
    ELSE IF ~(isReg(Operands(MI, 1)))
           THEN report_fatal_instr_problem(MI.opcode, "Second operand should be register.", s1)
           ELSE IF ~(isImm(Operands(MI, 2)))
                  THEN report_fatal_instr_problem(MI.opcode, "Third operand should be immediate.", s1)
                  ELSE IF 8 <= uint8_t(getImm(Operands(MI, 0)))
                         THEN report_fatal_instr_problem(MI.opcode, "First operand should be in range 0..7.", s1)
                         ELSE LET s4 == CASE getReg(Operands(MI, 1)) = "IX" ->
                                               emitByte(\hdd, s1)
                                          [] getReg(Operands(MI, 1)) = "IY" ->
                                               emitByte(\hfd, s1)
                                          [] OTHER ->
                                               report_fatal_instr_problem(MI.opcode, "Allowed registers are IX, IY.", s1)
                              IN IF Failed(s4) THEN s4 ELSE
                              emitBytes(<<\hcb, getImm(Operands(MI, 2)), BitOr(shl(uint8_t(getImm(Operands(MI, 0))), 3), \h46)>>, s4)

\* case Z80::BIT8bp (lines 689-720)
case_BIT8bp(MI, numOperands, s) ==
  LET s1 == check_num_operands(MI.opcode, 2, numOperands, s)
  IN IF Failed(s1) THEN s1 ELSE
  IF ~(isImm(Operands(MI, 0)))
    THEN report_fatal_instr_problem(MI.opcode, "First operand should be immediate.", s1)
    ELSE IF ~(isReg(Operands(MI, 1)))
           THEN report_fatal_instr_problem(MI.opcode, "Second operand should be register.", s1)
           ELSE IF 8 <= uint8_t(getImm(Operands(MI, 0)))
                  THEN report_fatal_instr_problem(MI.opcode, "First operand should be in range 0..7.", s1)
                  ELSE LET s5 == CASE getReg(Operands(MI, 1)) = "HL" ->
                                        emitByte(\hcb, s1)
                                   [] getReg(Operands(MI, 1)) = "IX" ->
                                        emitBytes(<<\hdd, \hcb, 0>>, s1)
                                   [] getReg(Operands(MI, 1)) = "IY" ->
                                        emitBytes(<<\hfd, \hcb, 0>>, s1)
                                   [] OTHER ->
                                        report_fatal_instr_problem(MI.opcode, "Allowed registers are HL, IX, IY.", s1)
                       IN IF Failed(s5) THEN s5 ELSE
                       emitByte(BitOr(shl(uint8_t(getImm(Operands(MI, 0))), 3), \h46), s5)

\* case Z80::CALL16 (lines 721-740)
case_CALL16(MI, numOperands, s) ==
  LET s1 == check_num_operands(MI.opcode, 1, numOperands, s)
  IN IF Failed(s1) THEN s1 ELSE
  LET s2 == emitByte(\hcd, s1)
  IN IF isExpr(Operands(MI, 0))
       THEN LET s3 == push_back(MCFixup(s2.CurByte, getExpr(Operands(MI, 0)), "fixup_16", MI.loc), s2)
            IN emitBytes(<<0, 0>>, s3)
       ELSE IF isImm(Operands(MI, 0))
              THEN emitBytes(<<BitAnd(shr(uint16_t(getImm(Operands(MI, 0))), 0), \hff), BitAnd(shr(uint16_t(getImm(Operands(MI, 0))), 8), \hff)>>, s2)
              ELSE report_fatal_instr_problem(MI.opcode, "Operand should be an expression or immediate.", s2)

\* case Z80::CALL16CC (lines 741-772)
case_CALL16CC(MI, numOperands, s) ==
  LET s1 == check_num_operands(MI.opcode, 2, numOperands, s)
  IN IF Failed(s1) THEN s1 ELSE
  IF ~(isImm(Operands(MI, 1)))
    THEN report_fatal_instr_problem(MI.opcode, "Second operand should be immediate.", s1)
    ELSE IF 8 <= uint8_t(getImm(Operands(MI, 1)))
           THEN report_fatal_instr_problem(MI.opcode, "Second operand should be in range 0..7.", s1)
           ELSE LET s2 == emitByte(BitOr(shl(uint8_t(getImm(Operands(MI, 1))), 3), \hc4), s1)
                IN IF isExpr(Operands(MI, 0))
                     THEN IF ~("SymbolRef" = getKind(getExpr(Operands(MI, 0))))
                            THEN report_fatal_instr_problem(MI.opcode, "Fitst operand expression should be a call target.", s2)
                            ELSE LET s3 == push_back(MCFixup(s2.CurByte, getExpr(Operands(MI, 0)), "fixup_16", MI.loc), s2)
                                 IN emitBytes(<<0, 0>>, s3)
                     ELSE IF isImm(Operands(MI, 0))
                            THEN emitBytes(<<BitAnd(shr(uint16_t(getImm(Operands(MI, 0))), 0), \hff), BitAnd(shr(uint16_t(getImm(Operands(MI, 0))), 8), \hff)>>, s2)
                            ELSE report_fatal_instr_problem(MI.opcode, "First operand should be an expression or immediate.", s2)

\* case Z80::CCF (lines 773-776)
case_CCF(MI, numOperands, s) ==
  LET s1 == check_num_operands(MI.opcode, 0, numOperands, s)
  IN IF Failed(s1) THEN s1 ELSE
  emitByte(\h3f, s1)

\* case Z80::CP8ai (lines 777-784)
case_CP8ai(MI, numOperands, s) ==
  LET s1 == check_num_operands(MI.opcode, 1, numOperands, s)
  IN IF Failed(s1) THEN s1 ELSE
  IF ~(isImm(Operands(MI, 0)))
    THEN report_fatal_instr_problem(MI.opcode, "Operand should be immediate.", s1)
    ELSE emitBytes(<<\hfe, getImm(Operands(MI, 0))>>, s1)

\* case Z80::CP8ao (lines 785-806)
case_CP8ao(MI, numOperands, s) ==
  LET s1 == check_num_operands(MI.opcode, 2, numOperands, s)
  IN IF Failed(s1) THEN s1 ELSE
  IF ~(isReg(Operands(MI, 0)))
    THEN report_fatal_instr_problem(MI.opcode, "First operand should be register.", s1)
    ELSE IF ~(isImm(Operands(MI, 1)))
           THEN report_fatal_instr_problem(MI.opcode, "Second operand should be immediate.", s1)
           ELSE LET s4 == CASE getReg(Operands(MI, 0)) = "IX" ->
                                 emitByte(\hdd, s1)
                            [] getReg(Operands(MI, 0)) = "IY" ->
                                 emitByte(\hfd, s1)
                            [] OTHER ->
                                 report_fatal_instr_problem(MI.opcode, "Allowed registers are IX, IY.", s1)
                IN IF Failed(s4) THEN s4 ELSE
                emitBytes(<<\hbe, getImm(Operands(MI, 1))>>, s4)

\* case Z80::CP8ap (lines 807-820)
case_CP8ap(MI, numOperands, s) ==
  LET s1 == check_num_operands(MI.opcode, 1, numOperands, s)
  IN IF Failed(s1) THEN s1 ELSE
  IF ~(isReg(Operands(MI, 0)))
    THEN report_fatal_instr_problem(MI.opcode, "Operand should be register.", s1)
    ELSE LET s2 == CASE getReg(Operands(MI, 0)) = "HL" ->
                          s1
                     [] OTHER ->
                          report_fatal_instr_problem(MI.opcode, "The only allowed register is HL.", s1)
         IN IF Failed(s2) THEN s2 ELSE
         emitByte(\hbe, s2)

\* case Z80::CP8ar (lines 821-884)
case_CP8ar(MI, numOperands, s) ==
  LET s1 == check_num_operands(MI.opcode, 1, numOperands, s)
  IN IF Failed(s1) THEN s1 ELSE
  IF ~(isReg(Operands(MI, 0)))
    THEN report_fatal_instr_problem(MI.opcode, "Operand should be register.", s1)
    ELSE CASE getReg(Operands(MI, 0)) = "A" ->
                emitByte(\hbf, s1)
           [] getReg(Operands(MI, 0)) = "B" ->
                emitByte(\hb8, s1)
           [] getReg(Operands(MI, 0)) = "C" ->
                emitByte(\hb9, s1)
           [] getReg(Operands(MI, 0)) = "D" ->
                emitByte(\hba, s1)
           [] getReg(Operands(MI, 0)) = "E" ->
                emitByte(\hbb, s1)
           [] getReg(Operands(MI, 0)) = "H" ->
                emitByte(\hbc, s1)
           [] getReg(Operands(MI, 0)) = "L" ->
                emitByte(\hbd, s1)
           [] getReg(Operands(MI, 0)) = "IXH" ->
                emitBytes(<<\he5, \hdd, \he5, \he1, \hbc, \he1>>, s1)
           [] getReg(Operands(MI, 0)) = "IXL" ->
                emitBytes(<<\he5, \hdd, \he5, \he1, \hbd, \he1>>, s1)
           [] getReg(Operands(MI, 0)) = "IYH" ->
                emitBytes(<<\he5, \hfd, \he5, \he1, \hbc, \he1>>, s1)
           [] getReg(Operands(MI, 0)) = "IYL" ->
                emitBytes(<<\he5, \hfd, \he5, \he1, \hbd, \he1>>, s1)
           [] OTHER ->
                report_fatal_instr_problem(MI.opcode, "Allowed register are A, B, C, D, E, H, L.", s1)

\* case Z80::CPD16 (lines 885-889)
case_CPD16(MI, numOperands, s) ==
  LET s1 == check_num_operands(MI.opcode, 0, numOperands, s)
  IN IF Failed(s1) THEN s1 ELSE
  emitBytes(<<\hed, \ha9>>, s1)

\* case Z80::CPDR16 (lines 890-894)
case_CPDR16(MI, numOperands, s) ==
  LET s1 == check_num_operands(MI.opcode, 0, numOperands, s)
  IN IF Failed(s1) THEN s1 ELSE
  emitBytes(<<\hed, \hb9>>, s1)

\* case Z80::CPI16 (lines 895-899)
case_CPI16(MI, numOperands, s) ==
  LET s1 == check_num_operands(MI.opcode, 0, numOperands, s)
  IN IF Failed(s1) THEN s1 ELSE
  emitBytes(<<\hed, \ha1>>, s1)

\* case Z80::CPIR16 (lines 900-904)
case_CPIR16(MI, numOperands, s) ==
  LET s1 == check_num_operands(MI.opcode, 0, numOperands, s)
  IN IF Failed(s1) THEN s1 ELSE
  emitBytes(<<\hed, \hb1>>, s1)

\* case Z80::CPL (lines 905-908)
case_CPL(MI, numOperands, s) ==
  LET s1 == check_num_operands(MI.opcode, 0, numOperands, s)
  IN IF Failed(s1) THEN s1 ELSE
  emitByte(\h2f, s1)

\* case Z80::DEC16SP (lines 909-912)
case_DEC16SP(MI, numOperands, s) ==
  LET s1 == check_num_operands(MI.opcode, 0, numOperands, s)
  IN IF Failed(s1) THEN s1 ELSE
  emitByte(\h3b, s1)

\* case Z80::DEC16r (lines 913-941)
case_DEC16r(MI, numOperands, s) ==
  IF numOperands = 0
    THEN report_fatal_instr_problem(MI.opcode, "Operand missing.", s)
    ELSE IF ~(isReg(Operands(MI, 0)))
           THEN report_fatal_instr_problem(MI.opcode, "An operand should be an register.", s)
           ELSE CASE getReg(Operands(MI, 0)) = "BC" ->
                       emitByte(\h0b, s)
                  [] getReg(Operands(MI, 0)) = "DE" ->
                       emitByte(\h1b, s)
                  [] getReg(Operands(MI, 0)) = "HL" ->
                       emitByte(\h2b, s)
                  [] getReg(Operands(MI, 0)) = "IX" ->
                       emitBytes(<<\hdd, \h2b>>, s)
                  [] getReg(Operands(MI, 0)) = "IY" ->
                       emitBytes(<<\hfd, \h2b>>, s)
                  [] OTHER ->
                       report_fatal_instr_problem(MI.opcode, "Allowed registers are BC, DE, HL, IX, IY.", s)

\* case Z80::DEC8o (lines 942-963)
case_DEC8o(MI, numOperands, s) ==
  LET s1 == check_num_operands(MI.opcode, 2, numOperands, s)
  IN IF Failed(s1) THEN s1 ELSE
  IF ~(isReg(Operands(MI, 0)))
    THEN report_fatal_instr_problem(MI.opcode, "First operand should be register.", s1)
    ELSE IF ~(isImm(Operands(MI, 1)))
           THEN report_fatal_instr_problem(MI.opcode, "Second operand should be immediate.", s1)
           ELSE LET s4 == CASE getReg(Operands(MI, 0)) = "IX" ->
                                 emitByte(\hdd, s1)
                            [] getReg(Operands(MI, 0)) = "IY" ->
                                 emitByte(\hfd, s1)
                            [] OTHER ->
                                 report_fatal_instr_problem(MI.opcode, "Allowed registers are IX, IY.", s1)
                IN IF Failed(s4) THEN s4 ELSE
                emitBytes(<<\h35, getImm(Operands(MI, 1))>>, s4)

\* case Z80::DEC8p (lines 964-987)
case_DEC8p(MI, numOperands, s) ==
  LET s1 == check_num_operands(MI.opcode, 1, numOperands, s)
  IN IF Failed(s1) THEN s1 ELSE
  IF ~(isReg(Operands(MI, 0)))
    THEN report_fatal_instr_problem(MI.opcode, "Operand should be register.", s1)
    ELSE CASE getReg(Operands(MI, 0)) = "HL" ->
                emitByte(\h35, s1)
           [] getReg(Operands(MI, 0)) = "IX" ->
                emitBytes(<<\hdd, \h35, 0>>, s1)
           [] getReg(Operands(MI, 0)) = "IY" ->
                emitBytes(<<\hfd, \h35, 0>>, s1)
           [] OTHER ->
                report_fatal_instr_problem(MI.opcode, "Allowed registers are HL, IX, IY.", s1)

\* case Z80::DEC8r (lines 988-1064)
case_DEC8r(MI, numOperands, s) ==
  IF numOperands = 0
    THEN report_fatal_instr_problem(MI.opcode, "Operand missing.", s)
    ELSE IF ~(isReg(Operands(MI, 0)))
           THEN report_fatal_instr_problem(MI.opcode, "An operand should be an register.", s)
           ELSE CASE getReg(Operands(MI, 0)) = "A" ->
                       emitByte(\h3d, s)
                  [] getReg(Operands(MI, 0)) = "B" ->
                       emitByte(5, s)
                  [] getReg(Operands(MI, 0)) = "C" ->
                       emitByte(\h0d, s)
                  [] getReg(Operands(MI, 0)) = "D" ->
                       emitByte(\h15, s)
                  [] getReg(Operands(MI, 0)) = "E" ->
                       emitByte(\h1d, s)
                  [] getReg(Operands(MI, 0)) = "H" ->
                       emitByte(\h25, s)
                  [] getReg(Operands(MI, 0)) = "L" ->
                       emitByte(\h2d, s)
                  [] getReg(Operands(MI, 0)) = "IXH" ->
                       emitBytes(<<\he5, \hdd, \he5, \he1, \h25, \he5, \hdd, \he1, \he1>>, s)
                  [] getReg(Operands(MI, 0)) = "IXL" ->
                       emitBytes(<<\he5, \hdd, \he5, \he1, \h2d, \he5, \hdd, \he1, \he1>>, s)
                  [] getReg(Operands(MI, 0)) = "IYH" ->
                       emitBytes(<<\he5, \hfd, \he5, \he1, \h25, \he5, \hfd, \he1, \he1>>, s)
                  [] getReg(Operands(MI, 0)) = "IYL" ->
                       emitBytes(<<\he5, \hfd, \he5, \he1, \h2d, \he5, \hfd, \he1, \he1>>, s)
                  [] OTHER ->
                       report_fatal_instr_problem(MI.opcode, "Allowed register are A, B, C, D, E, H, L.", s)

\* case Z80::DI (lines 1065-1068)
case_DI(MI, numOperands, s) ==
  LET s1 == check_num_operands(MI.opcode, 0, numOperands, s)
  IN IF Failed(s1) THEN s1 ELSE
  emitByte(\hf3, s1)

\* case Z80::EI (lines 1069-1072)
case_EI(MI, numOperands, s) ==
  LET s1 == check_num_operands(MI.opcode, 0, numOperands, s)
  IN IF Failed(s1) THEN s1 ELSE
  emitByte(\hfb, s1)

\* case Z80::EX16DE (lines 1073-1076)
case_EX16DE(MI, numOperands, s) ==
  LET s1 == check_num_operands(MI.opcode, 0, numOperands, s)
  IN IF Failed(s1) THEN s1 ELSE
  emitByte(\heb, s1)

\* case Z80::EX16SP (lines 1077-1099)
case_EX16SP(MI, numOperands, s) ==
  LET s1 == check_num_operands(MI.opcode, 2, numOperands, s)
  IN IF Failed(s1) THEN s1 ELSE
  IF ~(isReg(Operands(MI, 0)) /\ isReg(Operands(MI, 1)))
    THEN report_fatal_instr_problem(MI.opcode, "Both operands should be registers.", s1)
    ELSE IF getReg(Operands(MI, 0)) # getReg(Operands(MI, 1))
           THEN report_fatal_instr_problem(MI.opcode, "Both operands should be the same register.", s1)
           ELSE LET s4 == CASE getReg(Operands(MI, 0)) = "HL" ->
                                 s1
                            [] getReg(Operands(MI, 0)) = "IX" ->
                                 emitByte(\hdd, s1)
                            [] getReg(Operands(MI, 0)) = "IY" ->
                                 emitByte(\hfd, s1)
                            [] OTHER ->
                                 report_fatal_instr_problem(MI.opcode, "Allowed registers are HL, IX, IY.", s1)
                IN IF Failed(s4) THEN s4 ELSE
                emitByte(\he3, s4)

\* case Z80::EXAF (lines 1100-1103)
case_EXAF(MI, numOperands, s) ==
  LET s1 == check_num_operands(MI.opcode, 0, numOperands, s)
  IN IF Failed(s1) THEN s1 ELSE
  emitByte(8, s1)

\* case Z80::EXX (lines 1104-1107)
case_EXX(MI, numOperands, s) ==
  LET s1 == check_num_operands(MI.opcode, 0, numOperands, s)
  IN IF Failed(s1) THEN s1 ELSE
  emitByte(\hd9, s1)

\* case Z80::INC16SP (lines 1108-1111)
case_INC16SP(MI, numOperands, s) ==
  LET s1 == check_num_operands(MI.opcode, 0, numOperands, s)
  IN IF Failed(s1) THEN s1 ELSE
  emitByte(\h33, s1)

\* case Z80::INC16r (lines 1112-1140)
case_INC16r(MI, numOperands, s) ==
  IF numOperands = 0
    THEN report_fatal_instr_problem(MI.opcode, "Operand missing.", s)
    ELSE IF ~(isReg(Operands(MI, 0)))
           THEN report_fatal_instr_problem(MI.opcode, "An operand should be an register.", s)
           ELSE CASE getReg(Operands(MI, 0)) = "BC" ->
                       emitByte(3, s)
                  [] getReg(Operands(MI, 0)) = "DE" ->
                       emitByte(\h13, s)
                  [] getReg(Operands(MI, 0)) = "HL" ->
                       emitByte(\h23, s)
                  [] getReg(Operands(MI, 0)) = "IX" ->
                       emitBytes(<<\hdd, \h23>>, s)
                  [] getReg(Operands(MI, 0)) = "IY" ->
                       emitBytes(<<\hfd, \h23>>, s)
                  [] OTHER ->
                       report_fatal_instr_problem(MI.opcode, "Allowed registers are BC, DE, HL, IX, IY.", s)

\* case Z80::INC8o (lines 1141-1162)
case_INC8o(MI, numOperands, s) ==
  LET s1 == check_num_operands(MI.opcode, 2, numOperands, s)
  IN IF Failed(s1) THEN s1 ELSE
  IF ~(isReg(Operands(MI, 0)))
    THEN report_fatal_instr_problem(MI.opcode, "First operand should be register.", s1)
    ELSE IF ~(isImm(Operands(MI, 1)))
           THEN report_fatal_instr_problem(MI.opcode, "Second operand should be immediate.", s1)
           ELSE LET s4 == CASE getReg(Operands(MI, 0)) = "IX" ->
                                 emitByte(\hdd, s1)
                            [] getReg(Operands(MI, 0)) = "IY" ->
                                 emitByte(\hfd, s1)
                            [] OTHER ->
                                 report_fatal_instr_problem(MI.opcode, "Allowed registers are IX, IY.", s1)
                IN IF Failed(s4) THEN s4 ELSE
                emitBytes(<<\h34, getImm(Operands(MI, 1))>>, s4)

\* case Z80::INC8p (lines 1163-1186)
case_INC8p(MI, numOperands, s) ==
  LET s1 == check_num_operands(MI.opcode, 1, numOperands, s)
  IN IF Failed(s1) THEN s1 ELSE
  IF ~(isReg(Operands(MI, 0)))
    THEN report_fatal_instr_problem(MI.opcode, "Operand should be register.", s1)
    ELSE CASE getReg(Operands(MI, 0)) = "HL" ->
                emitByte(\h34, s1)
           [] getReg(Operands(MI, 0)) = "IX" ->
                emitBytes(<<\hdd, \h34, 0>>, s1)
           [] getReg(Operands(MI, 0)) = "IY" ->
                emitBytes(<<\hfd, \h34, 0>>, s1)
           [] OTHER ->
                report_fatal_instr_problem(MI.opcode, "Allowed registers are HL, IX, IY.", s1)

\* case Z80::INC8r (lines 1187-1263)
case_INC8r(MI, numOperands, s) ==
  IF numOperands = 0
    THEN report_fatal_instr_problem(MI.opcode, "Operand missing.", s)
    ELSE IF ~(isReg(Operands(MI, 0)))
           THEN report_fatal_instr_problem(MI.opcode, "An operand should be an register.", s)
           ELSE CASE getReg(Operands(MI, 0)) = "A" ->
                       emitByte(\h3c, s)
                  [] getReg(Operands(MI, 0)) = "B" ->
                       emitByte(4, s)
                  [] getReg(Operands(MI, 0)) = "C" ->
                       emitByte(\h0c, s)
                  [] getReg(Operands(MI, 0)) = "D" ->
                       emitByte(\h14, s)
                  [] getReg(Operands(MI, 0)) = "E" ->
                       emitByte(\h1c, s)
                  [] getReg(Operands(MI, 0)) = "H" ->
                       emitByte(\h24, s)
                  [] getReg(Operands(MI, 0)) = "L" ->
                       emitByte(\h2c, s)
                  [] getReg(Operands(MI, 0)) = "IXH" ->
                       emitBytes(<<\he5, \hdd, \he5, \he1, \h24, \he5, \hdd, \he1, \he1>>, s)
                  [] getReg(Operands(MI, 0)) = "IXL" ->
                       emitBytes(<<\he5, \hdd, \he5, \he1, \h2c, \he5, \hdd, \he1, \he1>>, s)
                  [] getReg(Operands(MI, 0)) = "IYH" ->
                       emitBytes(<<\he5, \hfd, \he5, \he1, \h24, \he5, \hfd, \he1, \he1>>, s)
                  [] getReg(Operands(MI, 0)) = "IYL" ->
                       emitBytes(<<\he5, \hfd, \he5, \he1, \h2c, \he5, \hfd, \he1, \he1>>, s)
                  [] OTHER ->
                       report_fatal_instr_problem(MI.opcode, "Allowed register are A, B, C, D, E, H, L.", s)

\* case Z80::IND16 (lines 1264-1268)
case_IND16(MI, numOperands, s) ==
  LET s1 == check_num_operands(MI.opcode, 0, numOperands, s)
  IN IF Failed(s1) THEN s1 ELSE
  emitBytes(<<\hed, \haa>>, s1)

\* case Z80::INDR16 (lines 1269-1273)
case_INDR16(MI, numOperands, s) ==
  LET s1 == check_num_operands(MI.opcode, 0, numOperands, s)
  IN IF Failed(s1) THEN s1 ELSE
  emitBytes(<<\hed, \hba>>, s1)

\* case Z80::INI16 (lines 1274-1278)
case_INI16(MI, numOperands, s) ==
  LET s1 == check_num_operands(MI.opcode, 0, numOperands, s)
  IN IF Failed(s1) THEN s1 ELSE
  emitBytes(<<\hed, \ha2>>, s1)

\* case Z80::INIR16 (lines 1279-1283)
case_INIR16(MI, numOperands, s) ==
  LET s1 == check_num_operands(MI.opcode, 0, numOperands, s)
  IN IF Failed(s1) THEN s1 ELSE
  emitBytes(<<\hed, \hb2>>, s1)

\* case Z80::JP16r (lines 1284-1303)
case_JP16r(MI, numOperands, s) ==
  LET s1 == check_num_operands(MI.opcode, 1, numOperands, s)
  IN IF Failed(s1) THEN s1 ELSE
  IF ~(isReg(Operands(MI, 0)))
    THEN report_fatal_instr_problem(MI.opcode, "Operand should be register.", s1)
    ELSE LET s4 == CASE getReg(Operands(MI, 0)) = "HL" ->
                          s1
                     [] getReg(Operands(MI, 0)) = "IX" ->
                          emitByte(\hdd, s1)
                     [] getReg(Operands(MI, 0)) = "IY" ->
                          emitByte(\hfd, s1)
                     [] OTHER ->
                          report_fatal_instr_problem(MI.opcode, "Allowed registers are HL, IX, IY.", s1)
         IN IF Failed(s4) THEN s4 ELSE
         emitByte(\he9, s4)

\* case Z80::LD16SP (lines 1304-1323)
case_LD16SP(MI, numOperands, s) ==
  LET s1 == check_num_operands(MI.opcode, 1, numOperands, s)
  IN IF Failed(s1) THEN s1 ELSE
  IF ~(isReg(Operands(MI, 0)))
    THEN report_fatal_instr_problem(MI.opcode, "Operand should be register.", s1)
    ELSE LET s4 == CASE getReg(Operands(MI, 0)) = "HL" ->
                          s1
                     [] getReg(Operands(MI, 0)) = "IX" ->
                          emitByte(\hdd, s1)
                     [] getReg(Operands(MI, 0)) = "IY" ->
                          emitByte(\hfd, s1)
                     [] OTHER ->
                          report_fatal_instr_problem(MI.opcode, "Allowed registers are HL, IX, IY.", s1)
         IN IF Failed(s4) THEN s4 ELSE
         emitByte(\hf9, s4)

\* case Z80::LD16am (lines 1324-1359)
case_LD16am(MI, numOperands, s) ==
  LET s1 == check_num_operands(MI.opcode, 2, numOperands, s)
  IN IF Failed(s1) THEN s1 ELSE
  IF ~(isReg(Operands(MI, 0)))
    THEN report_fatal_instr_problem(MI.opcode, "First operand should be register.", s1)
    ELSE LET s4 == CASE getReg(Operands(MI, 0)) = "HL" ->
                          s1
                     [] getReg(Operands(MI, 0)) = "IX" ->
                          emitByte(\hdd, s1)
                     [] getReg(Operands(MI, 0)) = "IY" ->
                          emitByte(\hfd, s1)
                     [] OTHER ->
                          report_fatal_instr_problem(MI.opcode, "Allowed registers are HL, IX, IY.", s1)
         IN IF Failed(s4) THEN s4 ELSE
         LET s5 == emitByte(\h2a, s4)
         IN IF isExpr(Operands(MI, 1))
              THEN LET s6 == push_back(MCFixup(s5.CurByte, getExpr(Operands(MI, 1)), "fixup_16", MI.loc), s5)
                   IN emitBytes(<<0, 0>>, s6)
              ELSE IF isImm(Operands(MI, 1))
                     THEN emitBytes(<<BitAnd(shr(uint16_t(getImm(Operands(MI, 1))), 0), \hff), BitAnd(shr(uint16_t(getImm(Operands(MI, 1))), 8), \hff)>>, s5)
                     ELSE report_fatal_instr_problem(MI.opcode, "Second operand should be an expression or immediate.", s5)

\* case Z80::LD16ma (lines 1360-1395)
case_LD16ma(MI, numOperands, s) ==
  LET s1 == check_num_operands(MI.opcode, 2, numOperands, s)
  IN IF Failed(s1) THEN s1 ELSE
  IF ~(isReg(Operands(MI, 1)))
    THEN report_fatal_instr_problem(MI.opcode, "Second operand should be register.", s1)
    ELSE LET s4 == CASE getReg(Operands(MI, 1)) = "HL" ->
                          s1
                     [] getReg(Operands(MI, 1)) = "IX" ->
                          emitByte(\hdd, s1)
                     [] getReg(Operands(MI, 1)) = "IY" ->
                          emitByte(\hfd, s1)
                     [] OTHER ->
                          report_fatal_instr_problem(MI.opcode, "Allowed registers are HL, IX, IY.", s1)
         IN IF Failed(s4) THEN s4 ELSE
         LET s5 == emitByte(\h22, s4)
         IN IF isExpr(Operands(MI, 0))
              THEN LET s6 == push_back(MCFixup(s5.CurByte, getExpr(Operands(MI, 0)), "fixup_16", MI.loc), s5)
                   IN emitBytes(<<0, 0>>, s6)
              ELSE IF isImm(Operands(MI, 0))
                     THEN emitBytes(<<BitAnd(shr(uint16_t(getImm(Operands(MI, 0))), 0), \hff), BitAnd(shr(uint16_t(getImm(Operands(MI, 0))), 8), \hff)>>, s5)
                     ELSE report_fatal_instr_problem(MI.opcode, "First operand should be an expression or immediate.", s5)

\* case Z80::LD16mo (lines 1396-1442)
case_LD16mo(MI, numOperands, s) ==
  LET s1 == check_num_operands(MI.opcode, 2, numOperands, s)
  IN IF Failed(s1) THEN s1 ELSE
  IF ~(isReg(Operands(MI, 1)))
    THEN report_fatal_instr_problem(MI.opcode, "Second operand should be register.", s1)
    ELSE LET s7 == CASE getReg(Operands(MI, 1)) = "BC" ->
                          emitBytes(<<\hed, \h43>>, s1)
                     [] getReg(Operands(MI, 1)) = "DE" ->
                          emitBytes(<<\hed, \h53>>, s1)
                     [] getReg(Operands(MI, 1)) = "HL" ->
                          emitBytes(<<\hed, \h63>>, s1)
                     [] getReg(Operands(MI, 1)) = "IX" ->
                          emitBytes(<<\hdd, \h22>>, s1)
                     [] getReg(Operands(MI, 1)) = "IY" ->
                          emitBytes(<<\hfd, \h22>>, s1)
                     [] OTHER ->
                          report_fatal_instr_problem(MI.opcode, "Allowed registers are BC, DE, HL, IX, IY.", s1)
         IN IF Failed(s7) THEN s7 ELSE
         IF isExpr(Operands(MI, 0))
           THEN LET s8 == push_back(MCFixup(s7.CurByte, getExpr(Operands(MI, 0)), "fixup_16", MI.loc), s7)
                IN emitBytes(<<0, 0>>, s8)
           ELSE IF isImm(Operands(MI, 0))
                  THEN emitBytes(<<BitAnd(shr(uint16_t(getImm(Operands(MI, 0))), 0), \hff), BitAnd(shr(uint16_t(getImm(Operands(MI, 0))), 8), \hff)>>, s7)
                  ELSE report_fatal_instr_problem(MI.opcode, "First operand should be an expression or immediate.", s7)

\* case Z80::LD16om (lines 1443-1489)
case_LD16om(MI, numOperands, s) ==
  LET s1 == check_num_operands(MI.opcode, 2, numOperands, s)
  IN IF Failed(s1) THEN s1 ELSE
  IF ~(isReg(Operands(MI, 0)))
    THEN report_fatal_instr_problem(MI.opcode, "First operand should be register.", s1)
    ELSE LET s7 == CASE getReg(Operands(MI, 0)) = "BC" ->
                          emitBytes(<<\hed, \h4b>>, s1)
                     [] getReg(Operands(MI, 0)) = "DE" ->
                          emitBytes(<<\hed, \h5b>>, s1)
                     [] getReg(Operands(MI, 0)) = "HL" ->
                          emitBytes(<<\hed, \h6b>>, s1)
                     [] getReg(Operands(MI, 0)) = "IX" ->
                          emitBytes(<<\hdd, \h2a>>, s1)
                     [] getReg(Operands(MI, 0)) = "IY" ->
                          emitBytes(<<\hfd, \h2a>>, s1)
                     [] OTHER ->
                          report_fatal_instr_problem(MI.opcode, "Allowed registers are BC, DE, HL, IX, IY.", s1)
         IN IF Failed(s7) THEN s7 ELSE
         IF isExpr(Operands(MI, 1))
           THEN LET s8 == push_back(MCFixup(s7.CurByte, getExpr(Operands(MI, 1)), "fixup_16", MI.loc), s7)
                IN emitBytes(<<0, 0>>, s8)
           ELSE IF isImm(Operands(MI, 1))
                  THEN emitBytes(<<BitAnd(shr(uint16_t(getImm(Operands(MI, 1))), 0), \hff), BitAnd(shr(uint16_t(getImm(Operands(MI, 1))), 8), \hff)>>, s7)
                  ELSE report_fatal_instr_problem(MI.opcode, "Second operand should be an expression or immediate.", s7)

\* case Z80::LD16ri (lines 1490-1533)
case_LD16ri(MI, numOperands, s) ==
  LET s1 == check_num_operands(MI.opcode, 2, numOperands, s)
  IN IF Failed(s1) THEN s1 ELSE
  IF ~(isReg(Operands(MI, 0)))
    THEN report_fatal_instr_problem(MI.opcode, "First operand should be register.", s1)
    ELSE LET s7 == CASE getReg(Operands(MI, 0)) = "BC" ->
                          emitByte(1, s1)
                     [] getReg(Operands(MI, 0)) = "DE" ->
                          emitByte(\h11, s1)
                     [] getReg(Operands(MI, 0)) = "HL" ->
                          emitByte(\h21, s1)
                     [] getReg(Operands(MI, 0)) = "IX" ->
                          emitBytes(<<\hdd, \h21>>, s1)
                     [] getReg(Operands(MI, 0)) = "IY" ->
                          emitBytes(<<\hfd, \h21>>, s1)
                     [] OTHER ->
                          report_fatal_instr_problem(MI.opcode, "Allowed registers are BC, DE, HL, IX, IY.", s1)
         IN IF Failed(s7) THEN s7 ELSE
         IF isExpr(Operands(MI, 1))
           THEN LET s8 == push_back(MCFixup(s7.CurByte, getExpr(Operands(MI, 1)), "fixup_16", MI.loc), s7)
                IN emitBytes(<<0, 0>>, s8)
           ELSE IF isImm(Operands(MI, 1))
                  THEN emitBytes(<<BitAnd(shr(uint16_t(getImm(Operands(MI, 1))), 0), \hff), BitAnd(shr(uint16_t(getImm(Operands(MI, 1))), 8), \hff)>>, s7)
                  ELSE report_fatal_instr_problem(MI.opcode, "Second operand should be an expression or immediate.", s7)

\* case Z80::LD8am (lines 1534-1553)
case_LD8am(MI, numOperands, s) ==
  LET s1 == check_num_operands(MI.opcode, 1, numOperands, s)
  IN IF Failed(s1) THEN s1 ELSE
  LET s2 == emitByte(\h3a, s1)
  IN IF isExpr(Operands(MI, 0))
       THEN LET s3 == push_back(MCFixup(s2.CurByte, getExpr(Operands(MI, 0)), "fixup_16", MI.loc), s2)
            IN emitBytes(<<0, 0>>, s3)
       ELSE IF isImm(Operands(MI, 0))
              THEN emitBytes(<<BitAnd(shr(uint16_t(getImm(Operands(MI, 0))), 0), \hff), BitAnd(shr(uint16_t(getImm(Operands(MI, 0))), 8), \hff)>>, s2)
              ELSE report_fatal_instr_problem(MI.opcode, "Operand should be an expression or immediate.", s2)

\* case Z80::LD8gg, LD8xx, LD8yy (lines 1554-2538)
case_LD8gg(MI, numOperands, s) ==
  LET s1 == check_num_operands(MI.opcode, 2, numOperands, s)
  IN IF Failed(s1) THEN s1 ELSE
  IF ~(isReg(Operands(MI, 0)) /\ isReg(Operands(MI, 1)))
    THEN report_fatal_instr_problem(MI.opcode, "Both operands should be registers.", s1)
    ELSE CASE getReg(Operands(MI, 0)) = "A" ->
                CASE getReg(Operands(MI, 1)) = "A" ->
                       emitByte(\h7f, s1)
                  [] getReg(Operands(MI, 1)) = "B" ->
                       emitByte(\h78, s1)
                  [] getReg(Operands(MI, 1)) = "C" ->
                       emitByte(\h79, s1)
                  [] getReg(Operands(MI, 1)) = "D" ->
                       emitByte(\h7a, s1)
                  [] getReg(Operands(MI, 1)) = "E" ->
                       emitByte(\h7b, s1)
                  [] getReg(Operands(MI, 1)) = "H" ->
                       emitByte(\h7c, s1)
                  [] getReg(Operands(MI, 1)) = "L" ->
                       emitByte(\h7d, s1)
                  [] getReg(Operands(MI, 1)) = "IXH" ->
                       emitBytes(<<\he5, \hdd, \he5, \he1, \h7c, \he1>>, s1)
                  [] getReg(Operands(MI, 1)) = "IXL" ->
                       emitBytes(<<\he5, \hdd, \he5, \he1, \h7d, \he1>>, s1)
                  [] getReg(Operands(MI, 1)) = "IYH" ->
                       emitBytes(<<\he5, \hfd, \he5, \he1, \h7c, \he1>>, s1)
                  [] getReg(Operands(MI, 1)) = "IYL" ->
                       emitBytes(<<\he5, \hfd, \he5, \he1, \h7d, \he1>>, s1)
                  [] OTHER ->
                       report_fatal_instr_problem(MI.opcode, "Allowed register are A, B, C, D, E, H, L.", s1)
           [] getReg(Operands(MI, 0)) = "B" ->
                CASE getReg(Operands(MI, 1)) = "A" ->
                       emitByte(\h47, s1)
                  [] getReg(Operands(MI, 1)) = "B" ->
                       emitByte(\h40, s1)
                  [] getReg(Operands(MI, 1)) = "C" ->
                       emitByte(\h41, s1)
                  [] getReg(Operands(MI, 1)) = "D" ->
                       emitByte(\h42, s1)
                  [] getReg(Operands(MI, 1)) = "E" ->
                       emitByte(\h43, s1)
                  [] getReg(Operands(MI, 1)) = "H" ->
                       emitByte(\h44, s1)
                  [] getReg(Operands(MI, 1)) = "L" ->
                       emitByte(\h45, s1)
                  [] getReg(Operands(MI, 1)) = "IXH" ->
                       emitBytes(<<\he5, \hdd, \he5, \he1, \h44, \he1>>, s1)
                  [] getReg(Operands(MI, 1)) = "IXL" ->
                       emitBytes(<<\he5, \hdd, \he5, \he1, \h45, \he1>>, s1)
                  [] getReg(Operands(MI, 1)) = "IYH" ->
                       emitBytes(<<\he5, \hfd, \he5, \he1, \h44, \he1>>, s1)
                  [] getReg(Operands(MI, 1)) = "IYL" ->
                       emitBytes(<<\he5, \hfd, \he5, \he1, \h45, \he1>>, s1)
                  [] OTHER ->
                       report_fatal_instr_problem(MI.opcode, "Allowed register are A, B, C, D, E, H, L.", s1)
           [] getReg(Operands(MI, 0)) = "C" ->
                CASE getReg(Operands(MI, 1)) = "A" ->
                       emitByte(\h4f, s1)
                  [] getReg(Operands(MI, 1)) = "B" ->
                       emitByte(\h48, s1)
                  [] getReg(Operands(MI, 1)) = "C" ->
                       emitByte(\h49, s1)
                  [] getReg(Operands(MI, 1)) = "D" ->
                       emitByte(\h4a, s1)
                  [] getReg(Operands(MI, 1)) = "E" ->
                       emitByte(\h4b, s1)
                  [] getReg(Operands(MI, 1)) = "H" ->
                       emitByte(\h4c, s1)
                  [] getReg(Operands(MI, 1)) = "L" ->
                       emitByte(\h4d, s1)
                  [] getReg(Operands(MI, 1)) = "IXH" ->
                       emitBytes(<<\he5, \hdd, \he5, \he1, \h4c, \he1>>, s1)
                  [] getReg(Operands(MI, 1)) = "IXL" ->
                       emitBytes(<<\he5, \hdd, \he5, \he1, \h4d, \he1>>, s1)
                  [] getReg(Operands(MI, 1)) = "IYH" ->
                       emitBytes(<<\he5, \hfd, \he5, \he1, \h4c, \he1>>, s1)
                  [] getReg(Operands(MI, 1)) = "IYL" ->
                       emitBytes(<<\he5, \hfd, \he5, \he1, \h4d, \he1>>, s1)
                  [] OTHER ->
                       report_fatal_instr_problem(MI.opcode, "Allowed register are A, B, C, D, E, H, L.", s1)
           [] getReg(Operands(MI, 0)) = "D" ->
                CASE getReg(Operands(MI, 1)) = "A" ->
                       emitByte(\h57, s1)
                  [] getReg(Operands(MI, 1)) = "B" ->
                       emitByte(\h50, s1)
                  [] getReg(Operands(MI, 1)) = "C" ->
                       emitByte(\h51, s1)
                  [] getReg(Operands(MI, 1)) = "D" ->
                       emitByte(\h52, s1)
                  [] getReg(Operands(MI, 1)) = "E" ->
                       emitByte(\h53, s1)
                  [] getReg(Operands(MI, 1)) = "H" ->
                       emitByte(\h54, s1)
                  [] getReg(Operands(MI, 1)) = "L" ->
                       emitByte(\h55, s1)
                  [] getReg(Operands(MI, 1)) = "IXH" ->
                       emitBytes(<<\he5, \hdd, \he5, \he1, \h54, \he1>>, s1)
                  [] getReg(Operands(MI, 1)) = "IXL" ->
                       emitBytes(<<\he5, \hdd, \he5, \he1, \h55, \he1>>, s1)
                  [] getReg(Operands(MI, 1)) = "IYH" ->
                       emitBytes(<<\he5, \hfd, \he5, \he1, \h54, \he1>>, s1)
                  [] getReg(Operands(MI, 1)) = "IYL" ->
                       emitBytes(<<\he5, \hfd, \he5, \he1, \h55, \he1>>, s1)
                  [] OTHER ->
                       report_fatal_instr_problem(MI.opcode, "Allowed register are A, B, C, D, E, H, L.", s1)
           [] getReg(Operands(MI, 0)) = "E" ->
                CASE getReg(Operands(MI, 1)) = "A" ->
                       emitByte(\h5f, s1)
                  [] getReg(Operands(MI, 1)) = "B" ->
                       emitByte(\h58, s1)
                  [] getReg(Operands(MI, 1)) = "C" ->
                       emitByte(\h59, s1)
                  [] getReg(Operands(MI, 1)) = "D" ->
                       emitByte(\h5a, s1)
                  [] getReg(Operands(MI, 1)) = "E" ->
                       emitByte(\h5b, s1)
                  [] getReg(Operands(MI, 1)) = "H" ->
                       emitByte(\h5c, s1)
                  [] getReg(Operands(MI, 1)) = "L" ->
                       emitByte(\h5d, s1)
                  [] getReg(Operands(MI, 1)) = "IXH" ->
                       emitBytes(<<\he5, \hdd, \he5, \he1, \h5c, \he1>>, s1)
                  [] getReg(Operands(MI, 1)) = "IXL" ->
                       emitBytes(<<\he5, \hdd, \he5, \he1, \h5d, \he1>>, s1)
                  [] getReg(Operands(MI, 1)) = "IYH" ->
                       emitBytes(<<\he5, \hfd, \he5, \he1, \h5c, \he1>>, s1)
                  [] getReg(Operands(MI, 1)) = "IYL" ->
                       emitBytes(<<\he5, \hfd, \he5, \he1, \h5d, \he1>>, s1)
                  [] OTHER ->
                       report_fatal_instr_problem(MI.opcode, "Allowed register are A, B, C, D, E, H, L.", s1)
           [] getReg(Operands(MI, 0)) = "H" ->
                CASE getReg(Operands(MI, 1)) = "A" ->
                       emitByte(\h67, s1)
                  [] getReg(Operands(MI, 1)) = "B" ->
                       emitByte(\h60, s1)
                  [] getReg(Operands(MI, 1)) = "C" ->
                       emitByte(\h61, s1)
                  [] getReg(Operands(MI, 1)) = "D" ->
                       emitByte(\h62, s1)
                  [] getReg(Operands(MI, 1)) = "E" ->
                       emitByte(\h63, s1)
                  [] getReg(Operands(MI, 1)) = "H" ->
                       emitByte(\h64, s1)
                  [] getReg(Operands(MI, 1)) = "L" ->
                       emitByte(\h65, s1)
                  [] getReg(Operands(MI, 1)) = "IXH" ->
                       emitBytes(<<\hd5, \hdd, \he5, \hd1, \h62, \hd1>>, s1)
                  [] getReg(Operands(MI, 1)) = "IXL" ->
                       emitBytes(<<\hd5, \hdd, \he5, \hd1, \h63, \hd1>>, s1)
                  [] getReg(Operands(MI, 1)) = "IYH" ->
                       emitBytes(<<\hd5, \hfd, \he5, \hd1, \h62, \hd1>>, s1)
                  [] getReg(Operands(MI, 1)) = "IYL" ->
                       emitBytes(<<\hd5, \hfd, \he5, \hd1, \h63, \hd1>>, s1)
                  [] OTHER ->
                       report_fatal_instr_problem(MI.opcode, "Allowed register are A, B, C, D, E, H, L.", s1)
           [] getReg(Operands(MI, 0)) = "L" ->
                CASE getReg(Operands(MI, 1)) = "A" ->
                       emitByte(\h6f, s1)
                  [] getReg(Operands(MI, 1)) = "B" ->
                       emitByte(\h68, s1)
                  [] getReg(Operands(MI, 1)) = "C" ->
                       emitByte(\h69, s1)
                  [] getReg(Operands(MI, 1)) = "D" ->
                       emitByte(\h6a, s1)
                  [] getReg(Operands(MI, 1)) = "E" ->
                       emitByte(\h6b, s1)
                  [] getReg(Operands(MI, 1)) = "H" ->
                       emitByte(\h6c, s1)
                  [] getReg(Operands(MI, 1)) = "L" ->
                       emitByte(\h6d, s1)
                  [] getReg(Operands(MI, 1)) = "IXH" ->
                       emitBytes(<<\hd5, \hdd, \he5, \hd1, \h6a, \hd1>>, s1)
                  [] getReg(Operands(MI, 1)) = "IXL" ->
                       emitBytes(<<\hd5, \hdd, \he5, \hd1, \h6b, \hd1>>, s1)
                  [] getReg(Operands(MI, 1)) = "IYH" ->
                       emitBytes(<<\hd5, \hfd, \he5, \hd1, \h6a, \hd1>>, s1)
                  [] getReg(Operands(MI, 1)) = "IYL" ->
                       emitBytes(<<\hd5, \hfd, \he5, \hd1, \h6b, \hd1>>, s1)
                  [] OTHER ->
                       report_fatal_instr_problem(MI.opcode, "Allowed register are A, B, C, D, E, H, L.", s1)
           [] getReg(Operands(MI, 0)) = "IXH" ->
                CASE getReg(Operands(MI, 1)) = "A" ->
                       emitBytes(<<\he5, \hdd, \he5, \he1, \h67, \he5, \hdd, \he1, \he1>>, s1)
                  [] getReg(Operands(MI, 1)) = "B" ->
                       emitBytes(<<\he5, \hdd, \he5, \he1, \h60, \he5, \hdd, \he1, \he1>>, s1)
                  [] getReg(Operands(MI, 1)) = "C" ->
                       emitBytes(<<\he5, \hdd, \he5, \he1, \h61, \he5, \hdd, \he1, \he1>>, s1)
                  [] getReg(Operands(MI, 1)) = "D" ->
                       emitBytes(<<\he5, \hdd, \he5, \he1, \h62, \he5, \hdd, \he1, \he1>>, s1)
                  [] getReg(Operands(MI, 1)) = "E" ->
                       emitBytes(<<\he5, \hdd, \he5, \he1, \h63, \he5, \hdd, \he1, \he1>>, s1)
                  [] getReg(Operands(MI, 1)) = "H" ->
                       emitBytes(<<\hd5, \hdd, \he5, \hd1, \h54, \hd5, \hdd, \he1, \hd1>>, s1)
                  [] getReg(Operands(MI, 1)) = "L" ->
                       emitBytes(<<\hd5, \hdd, \he5, \hd1, \h55, \hd5, \hdd, \he1, \hd1>>, s1)
                  [] getReg(Operands(MI, 1)) = "IXH" ->
                       emitBytes(<<\he5, \hdd, \he5, \he1, \h64, \he5, \hdd, \he1, \he1>>, s1)
                  [] getReg(Operands(MI, 1)) = "IXL" ->
                       emitBytes(<<\he5, \hdd, \he5, \he1, \h65, \he5, \hdd, \he1, \he1>>, s1)
                  [] getReg(Operands(MI, 1)) = "IYH" ->
                       emitBytes(<<\he5, \hd5, \hdd, \he5, \he1, \hfd, \he5, \hd1, \h62, \he5, \hdd, \he1, \hd1, \he1>>, s1)
                  [] getReg(Operands(MI, 1)) = "IYL" ->
                       emitBytes(<<\he5, \hd5, \hdd, \he5, \he1, \hfd, \he5, \hd1, \h63, \he5, \hdd, \he1, \hd1, \he1>>, s1)
                  [] OTHER ->
                       report_fatal_instr_problem(MI.opcode, "Allowed register are A, B, C, D, E, H, L.", s1)
           [] getReg(Operands(MI, 0)) = "IXL" ->
                CASE getReg(Operands(MI, 1)) = "A" ->
                       emitBytes(<<\he5, \hdd, \he5, \he1, \h6f, \he5, \hdd, \he1, \he1>>, s1)
                  [] getReg(Operands(MI, 1)) = "B" ->
                       emitBytes(<<\he5, \hdd, \he5, \he1, \h68, \he5, \hdd, \he1, \he1>>, s1)
                  [] getReg(Operands(MI, 1)) = "C" ->
                       emitBytes(<<\he5, \hdd, \he5, \he1, \h69, \he5, \hdd, \he1, \he1>>, s1)
                  [] getReg(Operands(MI, 1)) = "D" ->
                       emitBytes(<<\he5, \hdd, \he5, \he1, \h6a, \he5, \hdd, \he1, \he1>>, s1)
                  [] getReg(Operands(MI, 1)) = "E" ->
                       emitBytes(<<\he5, \hdd, \he5, \he1, \h6b, \he5, \hdd, \he1, \he1>>, s1)
                  [] getReg(Operands(MI, 1)) = "H" ->
                       emitBytes(<<\hd5, \hdd, \he5, \hd1, \h5c, \hd5, \hdd, \he1, \hd1>>, s1)
                  [] getReg(Operands(MI, 1)) = "L" ->
                       emitBytes(<<\hd5, \hdd, \he5, \hd1, \h5d, \hd5, \hdd, \he1, \hd1>>, s1)
                  [] getReg(Operands(MI, 1)) = "IXH" ->
                       emitBytes(<<\he5, \hdd, \he5, \he1, \h6c, \he5, \hdd, \he1, \he1>>, s1)
                  [] getReg(Operands(MI, 1)) = "IXL" ->
                       emitBytes(<<\he5, \hdd, \he5, \he1, \h6d, \he5, \hdd, \he1, \he1>>, s1)
                  [] getReg(Operands(MI, 1)) = "IYH" ->
                       emitBytes(<<\he5, \hd5, \hdd, \he5, \he1, \hfd, \he5, \hd1, \h6a, \he5, \hdd, \he1, \hd1, \he1>>, s1)
                  [] getReg(Operands(MI, 1)) = "IYL" ->
                       emitBytes(<<\he5, \hd5, \hdd, \he5, \he1, \hfd, \he5, \hd1, \h6b, \he5, \hdd, \he1, \hd1, \he1>>, s1)
                  [] OTHER ->
                       report_fatal_instr_problem(MI.opcode, "Allowed register are A, B, C, D, E, H, L.", s1)
           [] getReg(Operands(MI, 0)) = "IYH" ->
                CASE getReg(Operands(MI, 1)) = "A" ->
                       emitBytes(<<\he5, \hfd, \he5, \he1, \h67, \he5, \hfd, \he1, \he1>>, s1)
                  [] getReg(Operands(MI, 1)) = "B" ->
                       emitBytes(<<\he5, \hfd, \he5, \he1, \h60, \he5, \hfd, \he1, \he1>>, s1)
                  [] getReg(Operands(MI, 1)) = "C" ->
                       emitBytes(<<\he5, \hfd, \he5, \he1, \h61, \he5, \hfd, \he1, \he1>>, s1)
                  [] getReg(Operands(MI, 1)) = "D" ->
                       emitBytes(<<\he5, \hfd, \he5, \he1, \h62, \he5, \hfd, \he1, \he1>>, s1)
                  [] getReg(Operands(MI, 1)) = "E" ->
                       emitBytes(<<\he5, \hfd, \he5, \he1, \h63, \he5, \hfd, \he1, \he1>>, s1)
                  [] getReg(Operands(MI, 1)) = "H" ->
                       emitBytes(<<\hd5, \hfd, \he5, \hd1, \h54, \hd5, \hfd, \he1, \hd1>>, s1)
                  [] getReg(Operands(MI, 1)) = "L" ->
                       emitBytes(<<\hd5, \hfd, \he5, \hd1, \h55, \hd5, \hfd, \he1, \hd1>>, s1)
                  [] getReg(Operands(MI, 1)) = "IXH" ->
                       emitBytes(<<\he5, \hd5, \hfd, \he5, \he1, \hdd, \he5, \hd1, \h62, \he5, \hfd, \he1, \hd1, \he1>>, s1)
                  [] getReg(Operands(MI, 1)) = "IXL" ->
                       emitBytes(<<\he5, \hd5, \hfd, \he5, \he1, \hdd, \he5, \hd1, \h63, \he5, \hfd, \he1, \hd1, \he1>>, s1)
                  [] getReg(Operands(MI, 1)) = "IYH" ->
                       emitBytes(<<\he5, \hfd, \he5, \he1, \h64, \he5, \hfd, \he1, \he1>>, s1)
                  [] getReg(Operands(MI, 1)) = "IYL" ->
                       emitBytes(<<\he5, \hfd, \he5, \he1, \h65, \he5, \hfd, \he1, \he1>>, s1)
                  [] OTHER ->
                       report_fatal_instr_problem(MI.opcode, "Allowed register are A, B, C, D, E, H, L.", s1)
           [] getReg(Operands(MI, 0)) = "IYL" ->
                CASE getReg(Operands(MI, 1)) = "A" ->
                       emitBytes(<<\he5, \hfd, \he5, \he1, \h6f, \he5, \hfd, \he1, \he1>>, s1)
                  [] getReg(Operands(MI, 1)) = "B" ->
                       emitBytes(<<\he5, \hfd, \he5, \he1, \h68, \he5, \hfd, \he1, \he1>>, s1)
                  [] getReg(Operands(MI, 1)) = "C" ->
                       emitBytes(<<\he5, \hfd, \he5, \he1, \h69, \he5, \hfd, \he1, \he1>>, s1)
                  [] getReg(Operands(MI, 1)) = "D" ->
                       emitBytes(<<\he5, \hfd, \he5, \he1, \h6a, \he5, \hfd, \he1, \he1>>, s1)
                  [] getReg(Operands(MI, 1)) = "E" ->
                       emitBytes(<<\he5, \hfd, \he5, \he1, \h6b, \he5, \hfd, \he1, \he1>>, s1)
                  [] getReg(Operands(MI, 1)) = "H" ->
                       emitBytes(<<\hd5, \hfd, \he5, \hd1, \h5c, \hd5, \hfd, \he1, \hd1>>, s1)
                  [] getReg(Operands(MI, 1)) = "L" ->
                       emitBytes(<<\hd5, \hfd, \he5, \hd1, \h5d, \hd5, \hfd, \he1, \hd1>>, s1)
                  [] getReg(Operands(MI, 1)) = "IXH" ->
                       emitBytes(<<\he5, \hd5, \hfd, \he5, \he1, \hdd, \he5, \hd1, \h6a, \he5, \hfd, \he1, \hd1, \he1>>, s1)
                  [] getReg(Operands(MI, 1)) = "IXL" ->
                       emitBytes(<<\he5, \hd5, \hfd, \he5, \he1, \hdd, \he5, \hd1, \h6b, \he5, \hfd, \he1, \hd1, \he1>>, s1)
                  [] getReg(Operands(MI, 1)) = "IYH" ->
                       emitBytes(<<\he5, \hfd, \he5, \he1, \h6c, \he5, \hfd, \he1, \he1>>, s1)
                  [] getReg(Operands(MI, 1)) = "IYL" ->
                       emitBytes(<<\he5, \hfd, \he5, \he1, \h6d, \he5, \hfd, \he1, \he1>>, s1)
                  [] OTHER ->
                       report_fatal_instr_problem(MI.opcode, "Allowed register are A, B, C, D, E, H, L.", s1)
           [] OTHER ->
                report_fatal_instr_problem(MI.opcode, "Allowed register are A, B, C, D, E, H, L.", s1)

\* case Z80::LD8go (lines 2539-2686)
case_LD8go(MI, numOperands, s) ==
  LET s1 == check_num_operands(MI.opcode, 3, numOperands, s)
  IN IF Failed(s1) THEN s1 ELSE
  IF ~(isReg(Operands(MI, 0)) /\ isReg(Operands(MI, 1)))
    THEN report_fatal_instr_problem(MI.opcode, "First two operands should be registers.", s1)
    ELSE IF ~(isImm(Operands(MI, 2)))
           THEN report_fatal_instr_problem(MI.opcode, "Third operand should be immediate.", s1)
           ELSE CASE getReg(Operands(MI, 0)) = "IXH" ->
                       LET s2 == emitBytes(<<\he5, \hdd, \he5, \he1>>, s1)
                       IN LET s5 == CASE getReg(Operands(MI, 1)) = "IX" ->
                                           emitByte(\hdd, s2)
                                      [] getReg(Operands(MI, 1)) = "IY" ->
                                           emitByte(\hfd, s2)
                                      [] OTHER ->
                                           report_fatal_instr_problem(MI.opcode, "Allowed second operand registers are IX, IY.", s2)
                          IN IF Failed(s5) THEN s5 ELSE
                          emitBytes(<<\h66, getImm(Operands(MI, 2)), \he5, \hdd, \he1, \he1>>, s5)
                  [] getReg(Operands(MI, 0)) = "IXL" ->
                       LET s7 == emitBytes(<<\he5, \hdd, \he5, \he1>>, s1)
                       IN LET s10 == CASE getReg(Operands(MI, 1)) = "IX" ->
                                            emitByte(\hdd, s7)
                                       [] getReg(Operands(MI, 1)) = "IY" ->
                                            emitByte(\hfd, s7)
                                       [] OTHER ->
                                            report_fatal_instr_problem(MI.opcode, "Allowed second operand registers are IX, IY.", s7)
                          IN IF Failed(s10) THEN s10 ELSE
                          emitBytes(<<\h6e, getImm(Operands(MI, 2)), \he5, \hdd, \he1, \he1>>, s10)
                  [] getReg(Operands(MI, 0)) = "IYH" ->
                       LET s12 == emitBytes(<<\he5, \hfd, \he5, \he1>>, s1)
                       IN LET s15 == CASE getReg(Operands(MI, 1)) = "IX" ->
                                            emitByte(\hdd, s12)
                                       [] getReg(Operands(MI, 1)) = "IY" ->
                                            emitByte(\hfd, s12)
                                       [] OTHER ->
                                            report_fatal_instr_problem(MI.opcode, "Allowed second operand registers are IX, IY.", s12)
                          IN IF Failed(s15) THEN s15 ELSE
                          emitBytes(<<\h66, getImm(Operands(MI, 2)), \he5, \hfd, \he1, \he1>>, s15)
                  [] getReg(Operands(MI, 0)) = "IYL" ->
                       LET s17 == emitBytes(<<\he5, \hfd, \he5, \he1>>, s1)
                       IN LET s20 == CASE getReg(Operands(MI, 1)) = "IX" ->
                                            emitByte(\hdd, s17)
                                       [] getReg(Operands(MI, 1)) = "IY" ->
                                            emitByte(\hfd, s17)
                                       [] OTHER ->
                                            report_fatal_instr_problem(MI.opcode, "Allowed second operand registers are IX, IY.", s17)
                          IN IF Failed(s20) THEN s20 ELSE
                          emitBytes(<<\h6e, getImm(Operands(MI, 2)), \he5, \hfd, \he1, \he1>>, s20)
                  [] OTHER ->
                       LET s24 == CASE getReg(Operands(MI, 1)) = "IX" ->
                                         emitByte(\hdd, s1)
                                    [] getReg(Operands(MI, 1)) = "IY" ->
                                         emitByte(\hfd, s1)
                                    [] OTHER ->
                                         report_fatal_instr_problem(MI.opcode, "Allowed second operand registers are IX, IY.", s1)
                       IN IF Failed(s24) THEN s24 ELSE
                       LET s32 == CASE getReg(Operands(MI, 0)) = "A" ->
                                         emitByte(\h7e, s24)
                                    [] getReg(Operands(MI, 0)) = "B" ->
                                         emitByte(\h46, s24)
                                    [] getReg(Operands(MI, 0)) = "C" ->
                                         emitByte(\h4e, s24)
                                    [] getReg(Operands(MI, 0)) = "D" ->
                                         emitByte(\h56, s24)
                                    [] getReg(Operands(MI, 0)) = "E" ->
                                         emitByte(\h5e, s24)
                                    [] getReg(Operands(MI, 0)) = "H" ->
                                         emitByte(\h66, s24)
                                    [] getReg(Operands(MI, 0)) = "L" ->
                                         emitByte(\h6e, s24)
                                    [] OTHER ->
                                         report_fatal_instr_problem(MI.opcode, "Allowed first operand registers are A, B, C, D, E, H, L.", s24)
                       IN IF Failed(s32) THEN s32 ELSE
                       emitByte(getImm(Operands(MI, 2)), s32)

\* case Z80::LD8gp (lines 2687-2960)
case_LD8gp(MI, numOperands, s) ==
  LET s1 == check_num_operands(MI.opcode, 2, numOperands, s)
  IN IF Failed(s1) THEN s1 ELSE
  IF ~(isReg(Operands(MI, 0)) /\ isReg(Operands(MI, 1)))
    THEN report_fatal_instr_problem(MI.opcode, "Both operands should be registers.", s1)
    ELSE CASE getReg(Operands(MI, 1)) = "HL" ->
                CASE getReg(Operands(MI, 0)) = "A" ->
                       emitByte(\h7e, s1)
                  [] getReg(Operands(MI, 0)) = "B" ->
                       emitByte(\h46, s1)
                  [] getReg(Operands(MI, 0)) = "C" ->
                       emitByte(\h4e, s1)
                  [] getReg(Operands(MI, 0)) = "D" ->
                       emitByte(\h56, s1)
                  [] getReg(Operands(MI, 0)) = "E" ->
                       emitByte(\h5e, s1)
                  [] getReg(Operands(MI, 0)) = "H" ->
                       emitByte(\h66, s1)
                  [] getReg(Operands(MI, 0)) = "L" ->
                       emitByte(\h6e, s1)
                  [] getReg(Operands(MI, 0)) = "IXH" ->
                       emitBytes(<<\hd5, \hdd, \he5, \hd1, \h56, \hd5, \hdd, \he1, \hd1>>, s1)
                  [] getReg(Operands(MI, 0)) = "IXL" ->
                       emitBytes(<<\hd5, \hdd, \he5, \hd1, \h5e, \hd5, \hdd, \he1, \hd1>>, s1)
                  [] getReg(Operands(MI, 0)) = "IYH" ->
                       emitBytes(<<\hd5, \hfd, \he5, \hd1, \h56, \hd5, \hfd, \he1, \hd1>>, s1)
                  [] getReg(Operands(MI, 0)) = "IYL" ->
                       emitBytes(<<\hd5, \hfd, \he5, \hd1, \h5e, \hd5, \hfd, \he1, \hd1>>, s1)
                  [] OTHER ->
                       report_fatal_instr_problem(MI.opcode, "Allowed first operand registers are A, B, C, D, E, H, L.", s1)
           [] getReg(Operands(MI, 1)) = "IX" ->
                CASE getReg(Operands(MI, 0)) = "A" ->
                       emitBytes(<<\hdd, \h7e, 0>>, s1)
                  [] getReg(Operands(MI, 0)) = "B" ->
                       emitBytes(<<\hdd, \h46, 0>>, s1)
                  [] getReg(Operands(MI, 0)) = "C" ->
                       emitBytes(<<\hdd, \h4e, 0>>, s1)
                  [] getReg(Operands(MI, 0)) = "D" ->
                       emitBytes(<<\hdd, \h56, 0>>, s1)
                  [] getReg(Operands(MI, 0)) = "E" ->
                       emitBytes(<<\hdd, \h5e, 0>>, s1)
                  [] getReg(Operands(MI, 0)) = "H" ->
                       emitBytes(<<\hdd, \h66, 0>>, s1)
                  [] getReg(Operands(MI, 0)) = "L" ->
                       emitBytes(<<\hdd, \h6e, 0>>, s1)
                  [] getReg(Operands(MI, 0)) = "IXH" ->
                       emitBytes(<<\hd5, \hdd, \he5, \hd1, \hdd, \h56, 0, \hd5, \hdd, \he1, \hd1>>, s1)
                  [] getReg(Operands(MI, 0)) = "IXL" ->
                       emitBytes(<<\hd5, \hdd, \he5, \hd1, \hdd, \h5e, 0, \hd5, \hdd, \he1, \hd1>>, s1)
                  [] getReg(Operands(MI, 0)) = "IYH" ->
                       emitBytes(<<\hd5, \hfd, \he5, \hd1, \hdd, \h56, 0, \hd5, \hfd, \he1, \hd1>>, s1)
                  [] getReg(Operands(MI, 0)) = "IYL" ->
                       emitBytes(<<\hd5, \hfd, \he5, \hd1, \hdd, \h5e, 0, \hd5, \hfd, \he1, \hd1>>, s1)
                  [] OTHER ->
                       report_fatal_instr_problem(MI.opcode, "Allowed first operand registers are A, B, C, D, E, H, L.", s1)
           [] getReg(Operands(MI, 1)) = "IY" ->
                CASE getReg(Operands(MI, 0)) = "A" ->
                       emitBytes(<<\hfd, \h7e, 0>>, s1)
                  [] getReg(Operands(MI, 0)) = "B" ->
                       emitBytes(<<\hfd, \h46, 0>>, s1)
                  [] getReg(Operands(MI, 0)) = "C" ->
                       emitBytes(<<\hfd, \h4e, 0>>, s1)
                  [] getReg(Operands(MI, 0)) = "D" ->
                       emitBytes(<<\hfd, \h56, 0>>, s1)
                  [] getReg(Operands(MI, 0)) = "E" ->
                       emitBytes(<<\hfd, \h5e, 0>>, s1)
                  [] getReg(Operands(MI, 0)) = "H" ->
                       emitBytes(<<\hfd, \h66, 0>>, s1)
                  [] getReg(Operands(MI, 0)) = "L" ->
                       emitBytes(<<\hfd, \h6e, 0>>, s1)
                  [] getReg(Operands(MI, 0)) = "IXH" ->
                       emitBytes(<<\hd5, \hdd, \he5, \hd1, \hfd, \h56, 0, \hd5, \hdd, \he1, \hd1>>, s1)
                  [] getReg(Operands(MI, 0)) = "IXL" ->
                       emitBytes(<<\hd5, \hdd, \he5, \hd1, \hfd, \h5e, 0, \hd5, \hdd, \he1, \hd1>>, s1)
                  [] getReg(Operands(MI, 0)) = "IYH" ->
                       emitBytes(<<\hd5, \hfd, \he5, \hd1, \hfd, \h56, 0, \hd5, \hfd, \he1, \hd1>>, s1)
                  [] getReg(Operands(MI, 0)) = "IYL" ->
                       emitBytes(<<\hd5, \hfd, \he5, \hd1, \hfd, \h5e, 0, \hd5, \hfd, \he1, \hd1>>, s1)
                  [] OTHER ->
                       report_fatal_instr_problem(MI.opcode, "Allowed first operand registers are A, B, C, D, E, H, L.", s1)
           [] OTHER ->
                report_fatal_instr_problem(MI.opcode, "Allowed registers are HL, IX, IY.", s1)

\* case Z80::LD8ma (lines 2961-2980)
case_LD8ma(MI, numOperands, s) ==
  LET s1 == check_num_operands(MI.opcode, 1, numOperands, s)
  IN IF Failed(s1) THEN s1 ELSE
  LET s2 == emitByte(\h32, s1)
  IN IF isExpr(Operands(MI, 0))
       THEN LET s3 == push_back(MCFixup(s2.CurByte, getExpr(Operands(MI, 0)), "fixup_16", MI.loc), s2)
            IN emitBytes(<<0, 0>>, s3)
       ELSE IF isImm(Operands(MI, 0))
              THEN emitBytes(<<BitAnd(shr(uint16_t(getImm(Operands(MI, 0))), 0), \hff), BitAnd(shr(uint16_t(getImm(Operands(MI, 0))), 8), \hff)>>, s2)
              ELSE report_fatal_instr_problem(MI.opcode, "Operand should be an expression or immediate.", s2)

\* case Z80::LD8og (lines 2981-3128)
case_LD8og(MI, numOperands, s) ==
  LET s1 == check_num_operands(MI.opcode, 3, numOperands, s)
  IN IF Failed(s1) THEN s1 ELSE
  IF ~(isReg(Operands(MI, 0)) /\ isReg(Operands(MI, 2)))
    THEN report_fatal_instr_problem(MI.opcode, "First and third operand should be registers.", s1)
    ELSE IF ~(isImm(Operands(MI, 1)))
           THEN report_fatal_instr_problem(MI.opcode, "Second operand should be immediate.", s1)
           ELSE CASE getReg(Operands(MI, 2)) = "IXH" ->
                       LET s2 == emitBytes(<<\he5, \hdd, \he5, \he1>>, s1)
                       IN LET s5 == CASE getReg(Operands(MI, 0)) = "IX" ->
                                           emitByte(\hdd, s2)
                                      [] getReg(Operands(MI, 0)) = "IY" ->
                                           emitByte(\hfd, s2)
                                      [] OTHER ->
                                           report_fatal_instr_problem(MI.opcode, "Allowed first operand registers are IX, IY.", s2)
                          IN IF Failed(s5) THEN s5 ELSE
                          emitBytes(<<\h74, getImm(Operands(MI, 1)), \he5, \hdd, \he1, \he1>>, s5)
                  [] getReg(Operands(MI, 2)) = "IXL" ->
                       LET s7 == emitBytes(<<\he5, \hdd, \he5, \he1>>, s1)
                       IN LET s10 == CASE getReg(Operands(MI, 0)) = "IX" ->
                                            emitByte(\hdd, s7)
                                       [] getReg(Operands(MI, 0)) = "IY" ->
                                            emitByte(\hfd, s7)
                                       [] OTHER ->
                                            report_fatal_instr_problem(MI.opcode, "Allowed first operand registers are IX, IY.", s7)
                          IN IF Failed(s10) THEN s10 ELSE
                          emitBytes(<<\h75, getImm(Operands(MI, 1)), \he5, \hdd, \he1, \he1>>, s10)
                  [] getReg(Operands(MI, 2)) = "IYH" ->
                       LET s12 == emitBytes(<<\he5, \hfd, \he5, \he1>>, s1)
                       IN LET s15 == CASE getReg(Operands(MI, 0)) = "IX" ->
                                            emitByte(\hdd, s12)
                                       [] getReg(Operands(MI, 0)) = "IY" ->
                                            emitByte(\hfd, s12)
                                       [] OTHER ->
                                            report_fatal_instr_problem(MI.opcode, "Allowed first operand registers are IX, IY.", s12)
                          IN IF Failed(s15) THEN s15 ELSE
                          emitBytes(<<\h74, getImm(Operands(MI, 1)), \he5, \hfd, \he1, \he1>>, s15)
                  [] getReg(Operands(MI, 2)) = "IYL" ->
                       LET s17 == emitBytes(<<\he5, \hfd, \he5, \he1>>, s1)
                       IN LET s20 == CASE getReg(Operands(MI, 0)) = "IX" ->
                                            emitByte(\hdd, s17)
                                       [] getReg(Operands(MI, 0)) = "IY" ->
                                            emitByte(\hfd, s17)
                                       [] OTHER ->
                                            report_fatal_instr_problem(MI.opcode, "Allowed first operand registers are IX, IY.", s17)
                          IN IF Failed(s20) THEN s20 ELSE
                          emitBytes(<<\h75, getImm(Operands(MI, 1)), \he5, \hfd, \he1, \he1>>, s20)
                  [] OTHER ->
                       LET s24 == CASE getReg(Operands(MI, 0)) = "IX" ->
                                         emitByte(\hdd, s1)
                                    [] getReg(Operands(MI, 0)) = "IY" ->
                                         emitByte(\hfd, s1)
                                    [] OTHER ->
                                         report_fatal_instr_problem(MI.opcode, "Allowed first operand registers are IX, IY.", s1)
                       IN IF Failed(s24) THEN s24 ELSE
                       LET s32 == CASE getReg(Operands(MI, 2)) = "A" ->
                                         emitByte(\h77, s24)
                                    [] getReg(Operands(MI, 2)) = "B" ->
                                         emitByte(\h70, s24)
                                    [] getReg(Operands(MI, 2)) = "C" ->
                                         emitByte(\h71, s24)
                                    [] getReg(Operands(MI, 2)) = "D" ->
                                         emitByte(\h72, s24)
                                    [] getReg(Operands(MI, 2)) = "E" ->
                                         emitByte(\h73, s24)
                                    [] getReg(Operands(MI, 2)) = "H" ->
                                         emitByte(\h74, s24)
                                    [] getReg(Operands(MI, 2)) = "L" ->
                                         emitByte(\h75, s24)
                                    [] OTHER ->
                                         report_fatal_instr_problem(MI.opcode, "Allowed third operand registers are A, B, C, D, E, H, L.", s24)
                       IN IF Failed(s32) THEN s32 ELSE
                       emitByte(getImm(Operands(MI, 1)), s32)

\* case Z80::LD8oi (lines 3129-3152)
case_LD8oi(MI, numOperands, s) ==
  LET s1 == check_num_operands(MI.opcode, 3, numOperands, s)
  IN IF Failed(s1) THEN s1 ELSE
  IF ~(isReg(Operands(MI, 0)))
    THEN report_fatal_instr_problem(MI.opcode, "First operand should be register.", s1)
    ELSE IF ~(isImm(Operands(MI, 1)) /\ isImm(Operands(MI, 2)))
           THEN report_fatal_instr_problem(MI.opcode, "Second and third  operand should be immediate.", s1)
           ELSE LET s4 == CASE getReg(Operands(MI, 0)) = "IX" ->
                                 emitByte(\hdd, s1)
                            [] getReg(Operands(MI, 0)) = "IY" ->
                                 emitByte(\hfd, s1)
                            [] OTHER ->
                                 report_fatal_instr_problem(MI.opcode, "Allowed registers are IX, IY.", s1)
                IN IF Failed(s4) THEN s4 ELSE
                emitBytes(<<\h36, getImm(Operands(MI, 1)), getImm(Operands(MI, 2))>>, s4)

\* case Z80::LD8pg (lines 3153-3390)
case_LD8pg(MI, numOperands, s) ==
  LET s1 == check_num_operands(MI.opcode, 2, numOperands, s)
  IN IF Failed(s1) THEN s1 ELSE
  IF ~(isReg(Operands(MI, 0)) /\ isReg(Operands(MI, 1)))
    THEN report_fatal_instr_problem(MI.opcode, "Both operands should be registers.", s1)
    ELSE CASE getReg(Operands(MI, 0)) = "HL" ->
                CASE getReg(Operands(MI, 1)) = "A" ->
                       emitByte(\h77, s1)
                  [] getReg(Operands(MI, 1)) = "B" ->
                       emitByte(\h70, s1)
                  [] getReg(Operands(MI, 1)) = "C" ->
                       emitByte(\h71, s1)
                  [] getReg(Operands(MI, 1)) = "D" ->
                       emitByte(\h72, s1)
                  [] getReg(Operands(MI, 1)) = "E" ->
                       emitByte(\h73, s1)
                  [] getReg(Operands(MI, 1)) = "H" ->
                       emitByte(\h74, s1)
                  [] getReg(Operands(MI, 1)) = "L" ->
                       emitByte(\h75, s1)
                  [] getReg(Operands(MI, 1)) = "IXH" ->
                       emitBytes(<<\hd5, \hdd, \he5, \hd1, \h72, \hd1>>, s1)
                  [] getReg(Operands(MI, 1)) = "IXL" ->
                       emitBytes(<<\hd5, \hdd, \he5, \hd1, \h73, \hd1>>, s1)
                  [] getReg(Operands(MI, 1)) = "IYH" ->
                       emitBytes(<<\hd5, \hfd, \he5, \hd1, \h72, \hd1>>, s1)
                  [] getReg(Operands(MI, 1)) = "IYL" ->
                       emitBytes(<<\hd5, \hfd, \he5, \hd1, \h73, \hd1>>, s1)
                  [] OTHER ->
                       report_fatal_instr_problem(MI.opcode, "Allowed first operand registers are A, B, C, D, E, H, L.", s1)
           [] getReg(Operands(MI, 0)) = "IX" ->
                CASE getReg(Operands(MI, 1)) = "A" ->
                       emitBytes(<<\hdd, \h77, 0>>, s1)
                  [] getReg(Operands(MI, 1)) = "B" ->
                       emitBytes(<<\hdd, \h70, 0>>, s1)
                  [] getReg(Operands(MI, 1)) = "C" ->
                       emitBytes(<<\hdd, \h71, 0>>, s1)
                  [] getReg(Operands(MI, 1)) = "D" ->
                       emitBytes(<<\hdd, \h72, 0>>, s1)
                  [] getReg(Operands(MI, 1)) = "E" ->
                       emitBytes(<<\hdd, \h73, 0>>, s1)
                  [] getReg(Operands(MI, 1)) = "H" ->
                       emitBytes(<<\hdd, \h74, 0>>, s1)
                  [] getReg(Operands(MI, 1)) = "L" ->
                       emitBytes(<<\hdd, \h75, 0>>, s1)
                  [] getReg(Operands(MI, 1)) = "IXH" ->
                       emitBytes(<<\hd5, \hdd, \he5, \hd1, \hdd, \h72, 0, \hd1>>, s1)
                  [] getReg(Operands(MI, 1)) = "IXL" ->
                       emitBytes(<<\hd5, \hdd, \he5, \hd1, \hdd, \h73, 0, \hd1>>, s1)
                  [] getReg(Operands(MI, 1)) = "IYH" ->
                       emitBytes(<<\hd5, \hfd, \he5, \hd1, \hdd, \h72, 0, \hd1>>, s1)
                  [] getReg(Operands(MI, 1)) = "IYL" ->
                       emitBytes(<<\hd5, \hfd, \he5, \hd1, \hdd, \h73, 0, \hd1>>, s1)
                  [] OTHER ->
                       report_fatal_instr_problem(MI.opcode, "Allowed first operand registers are A, B, C, D, E, H, L.", s1)
           [] getReg(Operands(MI, 0)) = "IY" ->
                CASE getReg(Operands(MI, 1)) = "A" ->
                       emitBytes(<<\hfd, \h77, 0>>, s1)
                  [] getReg(Operands(MI, 1)) = "B" ->
                       emitBytes(<<\hfd, \h70, 0>>, s1)
                  [] getReg(Operands(MI, 1)) = "C" ->
                       emitBytes(<<\hfd, \h71, 0>>, s1)
                  [] getReg(Operands(MI, 1)) = "D" ->
                       emitBytes(<<\hfd, \h72, 0>>, s1)
                  [] getReg(Operands(MI, 1)) = "E" ->
                       emitBytes(<<\hfd, \h73, 0>>, s1)
                  [] getReg(Operands(MI, 1)) = "H" ->
                       emitBytes(<<\hfd, \h74, 0>>, s1)
                  [] getReg(Operands(MI, 1)) = "L" ->
                       emitBytes(<<\hfd, \h75, 0>>, s1)
                  [] getReg(Operands(MI, 1)) = "IXH" ->
                       emitBytes(<<\hd5, \hdd, \he5, \hd1, \hfd, \h72, 0, \hd1>>, s1)
                  [] getReg(Operands(MI, 1)) = "IXL" ->
                       emitBytes(<<\hd5, \hdd, \he5, \hd1, \hfd, \h73, 0, \hd1>>, s1)
                  [] getReg(Operands(MI, 1)) = "IYH" ->
                       emitBytes(<<\hd5, \hfd, \he5, \hd1, \hfd, \h72, 0, \hd1>>, s1)
                  [] getReg(Operands(MI, 1)) = "IYL" ->
                       emitBytes(<<\hd5, \hfd, \he5, \hd1, \hfd, \h73, 0, \hd1>>, s1)
                  [] OTHER ->
                       report_fatal_instr_problem(MI.opcode, "Allowed first operand registers are A, B, C, D, E, H, L.", s1)
           [] OTHER ->
                report_fatal_instr_problem(MI.opcode, "Allowed registers are HL, IX, IY.", s1)

\* case Z80::LD8ri (lines 3391-3481)
case_LD8ri(MI, numOperands, s) ==
  LET s1 == check_num_operands(MI.opcode, 2, numOperands, s)
  IN IF Failed(s1) THEN s1 ELSE
  IF ~(isReg(Operands(MI, 0)))
    THEN report_fatal_instr_problem(MI.opcode, "First operand should be register.", s1)
    ELSE IF ~(isImm(Operands(MI, 1)))
           THEN report_fatal_instr_problem(MI.opcode, "Second operand should be immediate.", s1)
           ELSE CASE getReg(Operands(MI, 0)) = "A" ->
                       emitBytes(<<\h3e, getImm(Operands(MI, 1))>>, s1)
                  [] getReg(Operands(MI, 0)) = "B" ->
                       emitBytes(<<6, getImm(Operands(MI, 1))>>, s1)
                  [] getReg(Operands(MI, 0)) = "C" ->
                       emitBytes(<<\h0e, getImm(Operands(MI, 1))>>, s1)
                  [] getReg(Operands(MI, 0)) = "D" ->
                       emitBytes(<<\h16, getImm(Operands(MI, 1))>>, s1)
                  [] getReg(Operands(MI, 0)) = "E" ->
                       emitBytes(<<\h1e, getImm(Operands(MI, 1))>>, s1)
                  [] getReg(Operands(MI, 0)) = "H" ->
                       emitBytes(<<\h26, getImm(Operands(MI, 1))>>, s1)
                  [] getReg(Operands(MI, 0)) = "L" ->
                       emitBytes(<<\h2e, getImm(Operands(MI, 1))>>, s1)
                  [] getReg(Operands(MI, 0)) = "IXH" ->
                       emitBytes(<<\he5, \hdd, \he5, \he1, \h26, getImm(Operands(MI, 1)), \he5, \hdd, \he1, \he1>>, s1)
                  [] getReg(Operands(MI, 0)) = "IXL" ->
                       emitBytes(<<\he5, \hdd, \he5, \he1, \h2e, getImm(Operands(MI, 1)), \he5, \hdd, \he1, \he1>>, s1)
                  [] getReg(Operands(MI, 0)) = "IYH" ->
                       emitBytes(<<\he5, \hfd, \he5, \he1, \h26, getImm(Operands(MI, 1)), \he5, \hfd, \he1, \he1>>, s1)
                  [] getReg(Operands(MI, 0)) = "IYL" ->
                       emitBytes(<<\he5, \hfd, \he5, \he1, \h2e, getImm(Operands(MI, 1)), \he5, \hfd, \he1, \he1>>, s1)
                  [] OTHER ->
                       report_fatal_instr_problem(MI.opcode, "Allowed first operand registers are A, B, C, D, E, H, L.", s1)

\* case Z80::LD8pi (lines 3482-3509)
case_LD8pi(MI, numOperands, s) ==
  LET s1 == check_num_operands(MI.opcode, 2, numOperands, s)
  IN IF Failed(s1) THEN s1 ELSE
  IF ~(isReg(Operands(MI, 0)))
    THEN report_fatal_instr_problem(MI.opcode, "First operand should be register.", s1)
    ELSE IF ~(isImm(Operands(MI, 1)))
           THEN report_fatal_instr_problem(MI.opcode, "Second operand should be immediate.", s1)
           ELSE LET s5 == CASE getReg(Operands(MI, 0)) = "HL" ->
                                 emitByte(\h36, s1)
                            [] getReg(Operands(MI, 0)) = "IX" ->
                                 emitBytes(<<\hdd, \h36, 0>>, s1)
                            [] getReg(Operands(MI, 0)) = "IY" ->
                                 emitBytes(<<\hfd, \h36, 0>>, s1)
                            [] OTHER ->
                                 report_fatal_instr_problem(MI.opcode, "Allowed registers are HL, IX, IY.", s1)
                IN IF Failed(s5) THEN s5 ELSE
                emitByte(getImm(Operands(MI, 1)), s5)

\* case Z80::LDD16 (lines 3510-3514)
case_LDD16(MI, numOperands, s) ==
  LET s1 == check_num_operands(MI.opcode, 0, numOperands, s)
  IN IF Failed(s1) THEN s1 ELSE
  emitBytes(<<\hed, \ha8>>, s1)

\* case Z80::LDDR16 (lines 3515-3519)
case_LDDR16(MI, numOperands, s) ==
  LET s1 == check_num_operands(MI.opcode, 0, numOperands, s)
  IN IF Failed(s1) THEN s1 ELSE
  emitBytes(<<\hed, \hb8>>, s1)

\* case Z80::LDI16 (lines 3520-3524)
case_LDI16(MI, numOperands, s) ==
  LET s1 == check_num_operands(MI.opcode, 0, numOperands, s)
  IN IF Failed(s1) THEN s1 ELSE
  emitBytes(<<\hed, \ha0>>, s1)

\* case Z80::LDIR16 (lines 3525-3529)
case_LDIR16(MI, numOperands, s) ==
  LET s1 == check_num_operands(MI.opcode, 0, numOperands, s)
  IN IF Failed(s1) THEN s1 ELSE
  emitBytes(<<\hed, \hb0>>, s1)

\* case Z80::LEA16ro (lines 3530-3617)
case_LEA16ro(MI, numOperands, s) ==
  LET s1 == check_num_operands(MI.opcode, 3, numOperands, s)
  IN IF Failed(s1) THEN s1 ELSE
  IF ~(isReg(Operands(MI, 0)) /\ isReg(Operands(MI, 1)))
    THEN report_fatal_instr_problem(MI.opcode, "First two operands should be registers.", s1)
    ELSE IF ~(isImm(Operands(MI, 2)))
           THEN report_fatal_instr_problem(MI.opcode, "Third operand should be immediate.", s1)
           ELSE LET s2 == emitByte(\hf5, s1)
                IN LET s4 == IF "BC" # getReg(Operands(MI, 0))
                               THEN emitByte(\hc5, s2)
                               ELSE s2
                   IN LET s5 == emitBytes(<<6, 0, \h0e, getImm(Operands(MI, 2))>>, s4)
                   IN LET s14 == CASE getReg(Operands(MI, 1)) = "IX" ->
                                        LET s7 == IF getReg(Operands(MI, 0)) # getReg(Operands(MI, 1))
                                                    THEN emitBytes(<<\hdd, \he5>>, s5)
                                                    ELSE s5
                                        IN LET s8 == emitBytes(<<\hdd, 9>>, s7)
                                        IN IF getReg(Operands(MI, 0)) # getReg(Operands(MI, 1))
                                             THEN emitBytes(<<\hdd, \he5>>, s8)
                                             ELSE s8
                                   [] getReg(Operands(MI, 1)) = "IY" ->
                                        LET s11 == IF getReg(Operands(MI, 0)) # getReg(Operands(MI, 1))
                                                     THEN emitBytes(<<\hfd, \he5>>, s5)
                                                     ELSE s5
                                        IN LET s12 == emitBytes(<<\hfd, 9>>, s11)
                                        IN IF getReg(Operands(MI, 0)) # getReg(Operands(MI, 1))
                                             THEN emitBytes(<<\hfd, \he5>>, s12)
                                             ELSE s12
                                   [] OTHER ->
                                        report_fatal_instr_problem(MI.opcode, "Allowed registers in the second operand are IX, IY.", s5)
                      IN IF Failed(s14) THEN s14 ELSE
                      LET s23 == IF getReg(Operands(MI, 0)) # getReg(Operands(MI, 1))
                                   THEN LET s20 == CASE getReg(Operands(MI, 0)) = "BC" ->
                                                          emitByte(\hc1, s14)
                                                     [] getReg(Operands(MI, 0)) = "DE" ->
                                                          emitByte(\hd1, s14)
                                                     [] getReg(Operands(MI, 0)) = "HL" ->
                                                          emitByte(\he1, s14)
                                                     [] getReg(Operands(MI, 0)) = "IX" ->
                                                          emitBytes(<<\hdd, \he1>>, s14)
                                                     [] getReg(Operands(MI, 0)) = "IY" ->
                                                          emitBytes(<<\hfd, \he1>>, s14)
                                                     [] OTHER ->
                                                          report_fatal_instr_problem(MI.opcode, "Allowed registers in the first operand are BC, DE, HL, IX, IY.", s14)
                                        IN IF Failed(s20) THEN s20 ELSE
                                        CASE getReg(Operands(MI, 1)) = "IX" ->
                                               emitBytes(<<\hdd, \he1>>, s20)
                                          [] getReg(Operands(MI, 1)) = "IY" ->
                                               emitBytes(<<\hfd, \he1>>, s20)
                                          [] OTHER ->
                                               report_fatal_instr_problem(MI.opcode, "Allowed registers in the second operand are IX, IY.", s20)
                                   ELSE s14
                      IN IF Failed(s23) THEN s23 ELSE
                      LET s25 == IF "BC" # getReg(Operands(MI, 0))
                                   THEN emitByte(\hc1, s23)
                                   ELSE s23
                      IN emitByte(\hf1, s25)

\* case Z80::NEG (lines 3618-3622)
case_NEG(MI, numOperands, s) ==
  LET s1 == check_num_operands(MI.opcode, 0, numOperands, s)
  IN IF Failed(s1) THEN s1 ELSE
  emitBytes(<<\hed, \h44>>, s1)

\* case Z80::NOP (lines 3623-3626)
case_NOP(MI, numOperands, s) ==
  LET s1 == check_num_operands(MI.opcode, 0, numOperands, s)
  IN IF Failed(s1) THEN s1 ELSE
  emitByte(0, s1)

\* case Z80::OR8ai (lines 3627-3634)
case_OR8ai(MI, numOperands, s) ==
  LET s1 == check_num_operands(MI.opcode, 1, numOperands, s)
  IN IF Failed(s1) THEN s1 ELSE
  IF ~(isImm(Operands(MI, 0)))
    THEN report_fatal_instr_problem(MI.opcode, "Operand should be immediate.", s1)
    ELSE emitBytes(<<\hf6, getImm(Operands(MI, 0))>>, s1)

\* case Z80::OR8ao (lines 3635-3656)
case_OR8ao(MI, numOperands, s) ==
  LET s1 == check_num_operands(MI.opcode, 2, numOperands, s)
  IN IF Failed(s1) THEN s1 ELSE
  IF ~(isReg(Operands(MI, 0)))
    THEN report_fatal_instr_problem(MI.opcode, "First operand should be register.", s1)
    ELSE IF ~(isImm(Operands(MI, 1)))
           THEN report_fatal_instr_problem(MI.opcode, "Second operand should be immediate.", s1)
           ELSE LET s4 == CASE getReg(Operands(MI, 0)) = "IX" ->
                                 emitByte(\hdd, s1)
                            [] getReg(Operands(MI, 0)) = "IY" ->
                                 emitByte(\hfd, s1)
                            [] OTHER ->
                                 report_fatal_instr_problem(MI.opcode, "Allowed registers are IX, IY.", s1)
                IN IF Failed(s4) THEN s4 ELSE
                emitBytes(<<\hb6, getImm(Operands(MI, 1))>>, s4)

\* case Z80::OR8ap (lines 3657-3670)
case_OR8ap(MI, numOperands, s) ==
  LET s1 == check_num_operands(MI.opcode, 1, numOperands, s)
  IN IF Failed(s1) THEN s1 ELSE
  IF ~(isReg(Operands(MI, 0)))
    THEN report_fatal_instr_problem(MI.opcode, "Operand should be register.", s1)
    ELSE LET s2 == CASE getReg(Operands(MI, 0)) = "HL" ->
                          s1
                     [] OTHER ->
                          report_fatal_instr_problem(MI.opcode, "The only allowed register is HL.", s1)
         IN IF Failed(s2) THEN s2 ELSE
         emitByte(\hb6, s2)

\* case Z80::OR8ar (lines 3671-3734)
case_OR8ar(MI, numOperands, s) ==
  LET s1 == check_num_operands(MI.opcode, 1, numOperands, s)
  IN IF Failed(s1) THEN s1 ELSE
  IF ~(isReg(Operands(MI, 0)))
    THEN report_fatal_instr_problem(MI.opcode, "Operand should be register.", s1)
    ELSE CASE getReg(Operands(MI, 0)) = "A" ->
                emitByte(\hb7, s1)
           [] getReg(Operands(MI, 0)) = "B" ->
                emitByte(\hb0, s1)
           [] getReg(Operands(MI, 0)) = "C" ->
                emitByte(\hb1, s1)
           [] getReg(Operands(MI, 0)) = "D" ->
                emitByte(\hb2, s1)
           [] getReg(Operands(MI, 0)) = "E" ->
                emitByte(\hb3, s1)
           [] getReg(Operands(MI, 0)) = "H" ->
                emitByte(\hb4, s1)
           [] getReg(Operands(MI, 0)) = "L" ->
                emitByte(\hb5, s1)
           [] getReg(Operands(MI, 0)) = "IXH" ->
                emitBytes(<<\he5, \hdd, \he5, \he1, \hb4, \he1>>, s1)
           [] getReg(Operands(MI, 0)) = "IXL" ->
                emitBytes(<<\he5, \hdd, \he5, \he1, \hb5, \he1>>, s1)
           [] getReg(Operands(MI, 0)) = "IYH" ->
                emitBytes(<<\he5, \hfd, \he5, \he1, \hb4, \he1>>, s1)
           [] getReg(Operands(MI, 0)) = "IYL" ->
                emitBytes(<<\he5, \hfd, \he5, \he1, \hb5, \he1>>, s1)
           [] OTHER ->
                report_fatal_instr_problem(MI.opcode, "Allowed register are A, B, C, D, E, H, L.", s1)

\* case Z80::OUTD16 (lines 3735-3739)
case_OUTD16(MI, numOperands, s) ==
  LET s1 == check_num_operands(MI.opcode, 0, numOperands, s)
  IN IF Failed(s1) THEN s1 ELSE
  emitBytes(<<\hed, \hab>>, s1)

\* case Z80::OUTDR16 (lines 3740-3744)
case_OUTDR16(MI, numOperands, s) ==
  LET s1 == check_num_operands(MI.opcode, 0, numOperands, s)
  IN IF Failed(s1) THEN s1 ELSE
  emitBytes(<<\hed, \hbb>>, s1)

\* case Z80::OUTI16 (lines 3745-3749)
case_OUTI16(MI, numOperands, s) ==
  LET s1 == check_num_operands(MI.opcode, 0, numOperands, s)
  IN IF Failed(s1) THEN s1 ELSE
  emitBytes(<<\hed, \ha3>>, s1)

\* case Z80::OUTIR16 (lines 3750-3754)
case_OUTIR16(MI, numOperands, s) ==
  LET s1 == check_num_operands(MI.opcode, 0, numOperands, s)
  IN IF Failed(s1) THEN s1 ELSE
  emitBytes(<<\hed, \hb3>>, s1)

\* case Z80::POP16AF (lines 3755-3758)
case_POP16AF(MI, numOperands, s) ==
  LET s1 == check_num_operands(MI.opcode, 0, numOperands, s)
  IN IF Failed(s1) THEN s1 ELSE
  emitByte(\hf1, s1)

\* case Z80::POP16r (lines 3759-3786)
case_POP16r(MI, numOperands, s) ==
  LET s1 == check_num_operands(MI.opcode, 1, numOperands, s)
  IN IF Failed(s1) THEN s1 ELSE
  IF ~(isReg(Operands(MI, 0)))
    THEN report_fatal_instr_problem(MI.opcode, "Operand should be register.", s1)
    ELSE CASE getReg(Operands(MI, 0)) = "BC" ->
                emitByte(\hc1, s1)
           [] getReg(Operands(MI, 0)) = "DE" ->
                emitByte(\hd1, s1)
           [] getReg(Operands(MI, 0)) = "HL" ->
                emitByte(\he1, s1)
           [] getReg(Operands(MI, 0)) = "IX" ->
                emitBytes(<<\hdd, \he1>>, s1)
           [] getReg(Operands(MI, 0)) = "IY" ->
                emitBytes(<<\hfd, \he1>>, s1)
           [] OTHER ->
                report_fatal_instr_problem(MI.opcode, "Allowed registers are BC, DE, HL, IX, IY.", s1)

\* case Z80::PUSH16AF (lines 3787-3790)
case_PUSH16AF(MI, numOperands, s) ==
  LET s1 == check_num_operands(MI.opcode, 0, numOperands, s)
  IN IF Failed(s1) THEN s1 ELSE
  emitByte(\hf5, s1)

\* case Z80::PUSH16r (lines 3791-3818)
case_PUSH16r(MI, numOperands, s) ==
  LET s1 == check_num_operands(MI.opcode, 1, numOperands, s)
  IN IF Failed(s1) THEN s1 ELSE
  IF ~(isReg(Operands(MI, 0)))
    THEN report_fatal_instr_problem(MI.opcode, "Operand should be register.", s1)
    ELSE CASE getReg(Operands(MI, 0)) = "BC" ->
                emitByte(\hc5, s1)
           [] getReg(Operands(MI, 0)) = "DE" ->
                emitByte(\hd5, s1)
           [] getReg(Operands(MI, 0)) = "HL" ->
                emitByte(\he5, s1)
           [] getReg(Operands(MI, 0)) = "IX" ->
                emitBytes(<<\hdd, \he5>>, s1)
           [] getReg(Operands(MI, 0)) = "IY" ->
                emitBytes(<<\hfd, \he5>>, s1)
           [] OTHER ->
                report_fatal_instr_problem(MI.opcode, "Allowed registers are BC, DE, HL, IX, IY.", s1)

\* case Z80::RES8bg (lines 3819-3911)
case_RES8bg(MI, numOperands, s) ==
  LET s1 == check_num_operands(MI.opcode, 2, numOperands, s)
  IN IF Failed(s1) THEN s1 ELSE
  IF ~(isImm(Operands(MI, 0)))
    THEN report_fatal_instr_problem(MI.opcode, "First operand should be immediate.", s1)
    ELSE IF 8 <= uint8_t(getImm(Operands(MI, 0)))
           THEN report_fatal_instr_problem(MI.opcode, "First operand should be in range 0..7.", s1)
           ELSE IF ~(isReg(Operands(MI, 1)))
                  THEN report_fatal_instr_problem(MI.opcode, "Second operand should be register.", s1)
                  ELSE CASE getReg(Operands(MI, 1)) = "A" ->
                              emitBytes(<<\hcb, BitOr(shl(uint8_t(getImm(Operands(MI, 0))), 3), \h87)>>, s1)
                         [] getReg(Operands(MI, 1)) = "B" ->
                              emitBytes(<<\hcb, BitOr(shl(uint8_t(getImm(Operands(MI, 0))), 3), \h80)>>, s1)
                         [] getReg(Operands(MI, 1)) = "C" ->
                              emitBytes(<<\hcb, BitOr(shl(uint8_t(getImm(Operands(MI, 0))), 3), \h81)>>, s1)
                         [] getReg(Operands(MI, 1)) = "D" ->
                              emitBytes(<<\hcb, BitOr(shl(uint8_t(getImm(Operands(MI, 0))), 3), \h82)>>, s1)
                         [] getReg(Operands(MI, 1)) = "E" ->
                              emitBytes(<<\hcb, BitOr(shl(uint8_t(getImm(Operands(MI, 0))), 3), \h83)>>, s1)
                         [] getReg(Operands(MI, 1)) = "H" ->
                              emitBytes(<<\hcb, BitOr(shl(uint8_t(getImm(Operands(MI, 0))), 3), \h84)>>, s1)
                         [] getReg(Operands(MI, 1)) = "L" ->
                              emitBytes(<<\hcb, BitOr(shl(uint8_t(getImm(Operands(MI, 0))), 3), \h85)>>, s1)
                         [] getReg(Operands(MI, 1)) = "IXH" ->
                              emitBytes(<<\he5, \hdd, \he5, \he1, \hcb, BitOr(shl(uint8_t(getImm(Operands(MI, 0))), 3), \h84), \he1>>, s1)
                         [] getReg(Operands(MI, 1)) = "IXL" ->
                              emitBytes(<<\he5, \hdd, \he5, \he1, \hcb, BitOr(shl(uint8_t(getImm(Operands(MI, 0))), 3), \h85), \he1>>, s1)
                         [] getReg(Operands(MI, 1)) = "IYH" ->
                              emitBytes(<<\he5, \hfd, \he5, \he1, \hcb, BitOr(shl(uint8_t(getImm(Operands(MI, 0))), 3), \h84), \he1>>, s1)
                         [] getReg(Operands(MI, 1)) = "IYL" ->
                              emitBytes(<<\he5, \hfd, \he5, \he1, \hcb, BitOr(shl(uint8_t(getImm(Operands(MI, 0))), 3), \h85), \he1>>, s1)
                         [] OTHER ->
                              report_fatal_instr_problem(MI.opcode, "Allowed register are A, B, C, D, E, H, L.", s1)

\* case Z80::RES8bo (lines 3912-3942)
case_RES8bo(MI, numOperands, s) ==
  LET s1 == check_num_operands(MI.opcode, 3, numOperands, s)
  IN IF Failed(s1) THEN s1 ELSE
  IF ~(isImm(Operands(MI, 0)))
    THEN report_fatal_instr_problem(MI.opcode, "First operand should be immediate.", s1)
    ELSE IF 8 <= uint8_t(getImm(Operands(MI, 0)))
           THEN report_fatal_instr_problem(MI.opcode, "First operand should be in range 0..7.", s1)
           ELSE IF ~(isReg(Operands(MI, 1)))
                  THEN report_fatal_instr_problem(MI.opcode, "Second operand should be register.", s1)
                  ELSE IF ~(isImm(Operands(MI, 2)))
                         THEN report_fatal_instr_problem(MI.opcode, "Third operand should be immediate.", s1)
                         ELSE LET s4 == CASE getReg(Operands(MI, 1)) = "IX" ->
                                               emitByte(\hdd, s1)
                                          [] getReg(Operands(MI, 1)) = "IY" ->
                                               emitByte(\hfd, s1)
                                          [] OTHER ->
                                               report_fatal_instr_problem(MI.opcode, "Allowed registers are IX, IY.", s1)
                              IN IF Failed(s4) THEN s4 ELSE
                              emitBytes(<<\hcb, getImm(Operands(MI, 2)), BitOr(shl(uint8_t(getImm(Operands(MI, 0))), 3), \h86)>>, s4)

\* case Z80::RES8bp (lines 3943-3965)
case_RES8bp(MI, numOperands, s) ==
  LET s1 == check_num_operands(MI.opcode, 2, numOperands, s)
  IN IF Failed(s1) THEN s1 ELSE
  IF ~(isImm(Operands(MI, 0)))
    THEN report_fatal_instr_problem(MI.opcode, "First operand should be immediate.", s1)
    ELSE IF 8 <= uint8_t(getImm(Operands(MI, 0)))
           THEN report_fatal_instr_problem(MI.opcode, "First operand should be in range 0..7.", s1)
           ELSE IF ~(isReg(Operands(MI, 1)))
                  THEN report_fatal_instr_problem(MI.opcode, "Second operand should be register.", s1)
                  ELSE LET s2 == CASE getReg(Operands(MI, 1)) = "HL" ->
                                        s1
                                   [] OTHER ->
                                        report_fatal_instr_problem(MI.opcode, "The only allowed register is HL.", s1)
                       IN IF Failed(s2) THEN s2 ELSE
                       emitBytes(<<\hcb, BitOr(shl(uint8_t(getImm(Operands(MI, 0))), 3), \h86)>>, s2)

\* case Z80::RET16 (lines 3966-3969)
case_RET16(MI, numOperands, s) ==
  LET s1 == check_num_operands(MI.opcode, 0, numOperands, s)
  IN IF Failed(s1) THEN s1 ELSE
  emitByte(\hc9, s1)

\* case Z80::RET16CC (lines 3970-3981)
case_RET16CC(MI, numOperands, s) ==
  LET s1 == check_num_operands(MI.opcode, 1, numOperands, s)
  IN IF Failed(s1) THEN s1 ELSE
  IF ~(isImm(Operands(MI, 0)))
    THEN report_fatal_instr_problem(MI.opcode, "Operand should be immediate.", s1)
    ELSE IF 8 <= uint8_t(getImm(Operands(MI, 0)))
           THEN report_fatal_instr_problem(MI.opcode, "Operand should be in range 0..7.", s1)
           ELSE emitByte(BitOr(shl(uint8_t(getImm(Operands(MI, 0))), 3), \hc0), s1)

\* case Z80::RETI16 (lines 3982-3986)
case_RETI16(MI, numOperands, s) ==
  LET s1 == check_num_operands(MI.opcode, 0, numOperands, s)
  IN IF Failed(s1) THEN s1 ELSE
  emitBytes(<<\hed, \h4d>>, s1)

\* case Z80::RETN16 (lines 3987-3991)
case_RETN16(MI, numOperands, s) ==
  LET s1 == check_num_operands(MI.opcode, 0, numOperands, s)
  IN IF Failed(s1) THEN s1 ELSE
  emitBytes(<<\hed, \h45>>, s1)

\* case Z80::RL8o (lines 3992-4014)
case_RL8o(MI, numOperands, s) ==
  LET s1 == check_num_operands(MI.opcode, 2, numOperands, s)
  IN IF Failed(s1) THEN s1 ELSE
  IF ~(isReg(Operands(MI, 0)))
    THEN report_fatal_instr_problem(MI.opcode, "First operand should be register.", s1)
    ELSE IF ~(isImm(Operands(MI, 1)))
           THEN report_fatal_instr_problem(MI.opcode, "Second operand should be immediate.", s1)
           ELSE LET s4 == CASE getReg(Operands(MI, 0)) = "IX" ->
                                 emitByte(\hdd, s1)
                            [] getReg(Operands(MI, 0)) = "IY" ->
                                 emitByte(\hfd, s1)
                            [] OTHER ->
                                 report_fatal_instr_problem(MI.opcode, "Allowed registers are IX, IY.", s1)
                IN IF Failed(s4) THEN s4 ELSE
                emitBytes(<<\hcb, getImm(Operands(MI, 1)), \h16>>, s4)

\* case Z80::RL8p (lines 4015-4029)
case_RL8p(MI, numOperands, s) ==
  LET s1 == check_num_operands(MI.opcode, 1, numOperands, s)
  IN IF Failed(s1) THEN s1 ELSE
  IF ~(isReg(Operands(MI, 0)))
    THEN report_fatal_instr_problem(MI.opcode, "Operand should be register.", s1)
    ELSE LET s2 == CASE getReg(Operands(MI, 0)) = "HL" ->
                          s1
                     [] OTHER ->
                          report_fatal_instr_problem(MI.opcode, "The only allowed register is HL.", s1)
         IN IF Failed(s2) THEN s2 ELSE
         emitBytes(<<\hcb, \h16>>, s2)

\* case Z80::RL8r (lines 4030-4117)
case_RL8r(MI, numOperands, s) ==
  IF numOperands = 0
    THEN report_fatal_instr_problem(MI.opcode, "Operand missing.", s)
    ELSE IF ~(isReg(Operands(MI, 0)))
           THEN report_fatal_instr_problem(MI.opcode, "An operand should be an register.", s)
           ELSE CASE getReg(Operands(MI, 0)) = "A" ->
                       emitBytes(<<\hcb, \h17>>, s)
                  [] getReg(Operands(MI, 0)) = "B" ->
                       emitBytes(<<\hcb, \h10>>, s)
                  [] getReg(Operands(MI, 0)) = "C" ->
                       emitBytes(<<\hcb, \h11>>, s)
                  [] getReg(Operands(MI, 0)) = "D" ->
                       emitBytes(<<\hcb, \h12>>, s)
                  [] getReg(Operands(MI, 0)) = "E" ->
                       emitBytes(<<\hcb, \h13>>, s)
                  [] getReg(Operands(MI, 0)) = "H" ->
                       emitBytes(<<\hcb, \h14>>, s)
                  [] getReg(Operands(MI, 0)) = "L" ->
                       emitBytes(<<\hcb, \h15>>, s)
                  [] getReg(Operands(MI, 0)) = "IXH" ->
                       emitBytes(<<\he5, \hdd, \he5, \he1, \hcb, \h14, \he5, \hdd, \he1, \he1>>, s)
                  [] getReg(Operands(MI, 0)) = "IXL" ->
                       emitBytes(<<\he5, \hdd, \he5, \he1, \hcb, \h15, \he5, \hdd, \he1, \he1>>, s)
                  [] getReg(Operands(MI, 0)) = "IYH" ->
                       emitBytes(<<\he5, \hfd, \he5, \he1, \hcb, \h14, \he5, \hfd, \he1, \he1>>, s)
                  [] getReg(Operands(MI, 0)) = "IYL" ->
                       emitBytes(<<\he5, \hfd, \he5, \he1, \hcb, \h15, \he5, \hfd, \he1, \he1>>, s)
                  [] OTHER ->
                       report_fatal_instr_problem(MI.opcode, "Allowed register are A, B, C, D, E, H, L.", s)

\* case Z80::RLC8o (lines 4118-4140)
case_RLC8o(MI, numOperands, s) ==
  LET s1 == check_num_operands(MI.opcode, 2, numOperands, s)
  IN IF Failed(s1) THEN s1 ELSE
  IF ~(isReg(Operands(MI, 0)))
    THEN report_fatal_instr_problem(MI.opcode, "First operand should be register.", s1)
    ELSE IF ~(isImm(Operands(MI, 1)))
           THEN report_fatal_instr_problem(MI.opcode, "Second operand should be immediate.", s1)
           ELSE LET s4 == CASE getReg(Operands(MI, 0)) = "IX" ->
                                 emitByte(\hdd, s1)
                            [] getReg(Operands(MI, 0)) = "IY" ->
                                 emitByte(\hfd, s1)
                            [] OTHER ->
                                 report_fatal_instr_problem(MI.opcode, "Allowed registers are IX, IY.", s1)
                IN IF Failed(s4) THEN s4 ELSE
                emitBytes(<<\hcb, getImm(Operands(MI, 1)), 6>>, s4)

\* case Z80::RLC8p (lines 4141-4155)
case_RLC8p(MI, numOperands, s) ==
  LET s1 == check_num_operands(MI.opcode, 1, numOperands, s)
  IN IF Failed(s1) THEN s1 ELSE
  IF ~(isReg(Operands(MI, 0)))
    THEN report_fatal_instr_problem(MI.opcode, "Operand should be register.", s1)
    ELSE LET s2 == CASE getReg(Operands(MI, 0)) = "HL" ->
                          s1
                     [] OTHER ->
                          report_fatal_instr_problem(MI.opcode, "The only allowed register is HL.", s1)
         IN IF Failed(s2) THEN s2 ELSE
         emitBytes(<<\hcb, 6>>, s2)

\* case Z80::RLC8r (lines 4156-4243)
case_RLC8r(MI, numOperands, s) ==
  IF numOperands = 0
    THEN report_fatal_instr_problem(MI.opcode, "Operand missing.", s)
    ELSE IF ~(isReg(Operands(MI, 0)))
           THEN report_fatal_instr_problem(MI.opcode, "An operand should be an register.", s)
           ELSE CASE getReg(Operands(MI, 0)) = "A" ->
                       emitBytes(<<\hcb, 7>>, s)
                  [] getReg(Operands(MI, 0)) = "B" ->
                       emitBytes(<<\hcb, 0>>, s)
                  [] getReg(Operands(MI, 0)) = "C" ->
                       emitBytes(<<\hcb, 1>>, s)
                  [] getReg(Operands(MI, 0)) = "D" ->
                       emitBytes(<<\hcb, 2>>, s)
                  [] getReg(Operands(MI, 0)) = "E" ->
                       emitBytes(<<\hcb, 3>>, s)
                  [] getReg(Operands(MI, 0)) = "H" ->
                       emitBytes(<<\hcb, 4>>, s)
                  [] getReg(Operands(MI, 0)) = "L" ->
                       emitBytes(<<\hcb, 5>>, s)
                  [] getReg(Operands(MI, 0)) = "IXH" ->
                       emitBytes(<<\he5, \hdd, \he5, \he1, \hcb, 4, \he5, \hdd, \he1, \he1>>, s)
                  [] getReg(Operands(MI, 0)) = "IXL" ->
                       emitBytes(<<\he5, \hdd, \he5, \he1, \hcb, 5, \he5, \hdd, \he1, \he1>>, s)
                  [] getReg(Operands(MI, 0)) = "IYH" ->
                       emitBytes(<<\he5, \hfd, \he5, \he1, \hcb, 4, \he5, \hfd, \he1, \he1>>, s)
                  [] getReg(Operands(MI, 0)) = "IYL" ->
                       emitBytes(<<\he5, \hfd, \he5, \he1, \hcb, 5, \he5, \hfd, \he1, \he1>>, s)
                  [] OTHER ->
                       report_fatal_instr_problem(MI.opcode, "Allowed register are A, B, C, D, E, H, L.", s)

\* case Z80::RR8o (lines 4244-4266)
case_RR8o(MI, numOperands, s) ==
  LET s1 == check_num_operands(MI.opcode, 2, numOperands, s)
  IN IF Failed(s1) THEN s1 ELSE
  IF ~(isReg(Operands(MI, 0)))
    THEN report_fatal_instr_problem(MI.opcode, "First operand should be register.", s1)
    ELSE IF ~(isImm(Operands(MI, 1)))
           THEN report_fatal_instr_problem(MI.opcode, "Second operand should be immediate.", s1)
           ELSE LET s4 == CASE getReg(Operands(MI, 0)) = "IX" ->
                                 emitByte(\hdd, s1)
                            [] getReg(Operands(MI, 0)) = "IY" ->
                                 emitByte(\hfd, s1)
                            [] OTHER ->
                                 report_fatal_instr_problem(MI.opcode, "Allowed registers are IX, IY.", s1)
                IN IF Failed(s4) THEN s4 ELSE
                emitBytes(<<\hcb, getImm(Operands(MI, 1)), \h1e>>, s4)

\* case Z80::RR8p (lines 4267-4281)
case_RR8p(MI, numOperands, s) ==
  LET s1 == check_num_operands(MI.opcode, 1, numOperands, s)
  IN IF Failed(s1) THEN s1 ELSE
  IF ~(isReg(Operands(MI, 0)))
    THEN report_fatal_instr_problem(MI.opcode, "Operand should be register.", s1)
    ELSE LET s2 == CASE getReg(Operands(MI, 0)) = "HL" ->
                          s1
                     [] OTHER ->
                          report_fatal_instr_problem(MI.opcode, "The only allowed register is HL.", s1)
         IN IF Failed(s2) THEN s2 ELSE
         emitBytes(<<\hcb, \h1e>>, s2)

\* case Z80::RR8r (lines 4282-4369)
case_RR8r(MI, numOperands, s) ==
  IF numOperands = 0
    THEN report_fatal_instr_problem(MI.opcode, "Operand missing.", s)
    ELSE IF ~(isReg(Operands(MI, 0)))
           THEN report_fatal_instr_problem(MI.opcode, "An operand should be an register.", s)
           ELSE CASE getReg(Operands(MI, 0)) = "A" ->
                       emitBytes(<<\hcb, \h1f>>, s)
                  [] getReg(Operands(MI, 0)) = "B" ->
                       emitBytes(<<\hcb, \h18>>, s)
                  [] getReg(Operands(MI, 0)) = "C" ->
                       emitBytes(<<\hcb, \h19>>, s)
                  [] getReg(Operands(MI, 0)) = "D" ->
                       emitBytes(<<\hcb, \h1a>>, s)
                  [] getReg(Operands(MI, 0)) = "E" ->
                       emitBytes(<<\hcb, \h1b>>, s)
                  [] getReg(Operands(MI, 0)) = "H" ->
                       emitBytes(<<\hcb, \h1c>>, s)
                  [] getReg(Operands(MI, 0)) = "L" ->
                       emitBytes(<<\hcb, \h1d>>, s)
                  [] getReg(Operands(MI, 0)) = "IXH" ->
                       emitBytes(<<\he5, \hdd, \he5, \he1, \hcb, \h1c, \he5, \hdd, \he1, \he1>>, s)
                  [] getReg(Operands(MI, 0)) = "IXL" ->
                       emitBytes(<<\he5, \hdd, \he5, \he1, \hcb, \h1d, \he5, \hdd, \he1, \he1>>, s)
                  [] getReg(Operands(MI, 0)) = "IYH" ->
                       emitBytes(<<\he5, \hfd, \he5, \he1, \hcb, \h1c, \he5, \hfd, \he1, \he1>>, s)
                  [] getReg(Operands(MI, 0)) = "IYL" ->
                       emitBytes(<<\he5, \hfd, \he5, \he1, \hcb, \h1d, \he5, \hfd, \he1, \he1>>, s)
                  [] OTHER ->
                       report_fatal_instr_problem(MI.opcode, "Allowed register are A, B, C, D, E, H, L.", s)

\* case Z80::RRC8o (lines 4370-4392)
case_RRC8o(MI, numOperands, s) ==
  LET s1 == check_num_operands(MI.opcode, 2, numOperands, s)
  IN IF Failed(s1) THEN s1 ELSE
  IF ~(isReg(Operands(MI, 0)))
    THEN report_fatal_instr_problem(MI.opcode, "First operand should be register.", s1)
    ELSE IF ~(isImm(Operands(MI, 1)))
           THEN report_fatal_instr_problem(MI.opcode, "Second operand should be immediate.", s1)
           ELSE LET s4 == CASE getReg(Operands(MI, 0)) = "IX" ->
                                 emitByte(\hdd, s1)
                            [] getReg(Operands(MI, 0)) = "IY" ->
                                 emitByte(\hfd, s1)
                            [] OTHER ->
                                 report_fatal_instr_problem(MI.opcode, "Allowed registers are IX, IY.", s1)
                IN IF Failed(s4) THEN s4 ELSE
                emitBytes(<<\hcb, getImm(Operands(MI, 1)), \h0e>>, s4)

\* case Z80::RRC8p (lines 4393-4407)
case_RRC8p(MI, numOperands, s) ==
  LET s1 == check_num_operands(MI.opcode, 1, numOperands, s)
  IN IF Failed(s1) THEN s1 ELSE
  IF ~(isReg(Operands(MI, 0)))
    THEN report_fatal_instr_problem(MI.opcode, "Operand should be register.", s1)
    ELSE LET s2 == CASE getReg(Operands(MI, 0)) = "HL" ->
                          s1
                     [] OTHER ->
                          report_fatal_instr_problem(MI.opcode, "The only allowed register is HL.", s1)
         IN IF Failed(s2) THEN s2 ELSE
         emitBytes(<<\hcb, \h0e>>, s2)

\* case Z80::RRC8r (lines 4408-4495)
case_RRC8r(MI, numOperands, s) ==
  IF numOperands = 0
    THEN report_fatal_instr_problem(MI.opcode, "Operand missing.", s)
    ELSE IF ~(isReg(Operands(MI, 0)))
           THEN report_fatal_instr_problem(MI.opcode, "An operand should be an register.", s)
           ELSE CASE getReg(Operands(MI, 0)) = "A" ->
                       emitBytes(<<\hcb, \h0f>>, s)
                  [] getReg(Operands(MI, 0)) = "B" ->
                       emitBytes(<<\hcb, 8>>, s)
                  [] getReg(Operands(MI, 0)) = "C" ->
                       emitBytes(<<\hcb, 9>>, s)
                  [] getReg(Operands(MI, 0)) = "D" ->
                       emitBytes(<<\hcb, \h0a>>, s)
                  [] getReg(Operands(MI, 0)) = "E" ->
                       emitBytes(<<\hcb, \h0b>>, s)
                  [] getReg(Operands(MI, 0)) = "H" ->
                       emitBytes(<<\hcb, \h0c>>, s)
                  [] getReg(Operands(MI, 0)) = "L" ->
                       emitBytes(<<\hcb, \h0d>>, s)
                  [] getReg(Operands(MI, 0)) = "IXH" ->
                       emitBytes(<<\he5, \hdd, \he5, \he1, \hcb, \h0c, \he5, \hdd, \he1, \he1>>, s)
                  [] getReg(Operands(MI, 0)) = "IXL" ->
                       emitBytes(<<\he5, \hdd, \he5, \he1, \hcb, \h0d, \he5, \hdd, \he1, \he1>>, s)
                  [] getReg(Operands(MI, 0)) = "IYH" ->
                       emitBytes(<<\he5, \hfd, \he5, \he1, \hcb, \h0c, \he5, \hfd, \he1, \he1>>, s)
                  [] getReg(Operands(MI, 0)) = "IYL" ->
                       emitBytes(<<\he5, \hfd, \he5, \he1, \hcb, \h0d, \he5, \hfd, \he1, \he1>>, s)
                  [] OTHER ->
                       report_fatal_instr_problem(MI.opcode, "Allowed register are A, B, C, D, E, H, L.", s)

\* case Z80::SBC16SP (lines 4496-4500)
case_SBC16SP(MI, numOperands, s) ==
  LET s1 == check_num_operands(MI.opcode, 0, numOperands, s)
  IN IF Failed(s1) THEN s1 ELSE
  emitBytes(<<\hed, \h72>>, s1)

\* case Z80::SBC16aa (lines 4501-4505)
case_SBC16aa(MI, numOperands, s) ==
  LET s1 == check_num_operands(MI.opcode, 0, numOperands, s)
  IN IF Failed(s1) THEN s1 ELSE
  emitBytes(<<\hed, \h62>>, s1)

\* case Z80::SBC16ao (lines 4506-4523)
case_SBC16ao(MI, numOperands, s) ==
  LET s1 == check_num_operands(MI.opcode, 1, numOperands, s)
  IN IF Failed(s1) THEN s1 ELSE
  LET s2 == emitByte(\hed, s1)
  IN IF ~(isReg(Operands(MI, 0)))
       THEN report_fatal_instr_problem(MI.opcode, "Operand should be register.", s2)
       ELSE CASE getReg(Operands(MI, 0)) = "BC" ->
                   emitByte(\h42, s2)
              [] getReg(Operands(MI, 0)) = "DE" ->
                   emitByte(\h52, s2)
              [] OTHER ->
                   report_fatal_instr_problem(MI.opcode, "Allowed registers are BC, DE.", s2)

\* case Z80::SBC8ai (lines 4524-4531)
case_SBC8ai(MI, numOperands, s) ==
  LET s1 == check_num_operands(MI.opcode, 1, numOperands, s)
  IN IF Failed(s1) THEN s1 ELSE
  IF ~(isImm(Operands(MI, 0)))
    THEN report_fatal_instr_problem(MI.opcode, "Operand should be immediate.", s1)
    ELSE emitBytes(<<\hde, getImm(Operands(MI, 0))>>, s1)

\* case Z80::SBC8ao (lines 4532-4553)
case_SBC8ao(MI, numOperands, s) ==
  LET s1 == check_num_operands(MI.opcode, 2, numOperands, s)
  IN IF Failed(s1) THEN s1 ELSE
  IF ~(isReg(Operands(MI, 0)))
    THEN report_fatal_instr_problem(MI.opcode, "First operand should be register.", s1)
    ELSE IF ~(isImm(Operands(MI, 1)))
           THEN report_fatal_instr_problem(MI.opcode, "Second operand should be immediate.", s1)
           ELSE LET s4 == CASE getReg(Operands(MI, 0)) = "IX" ->
                                 emitByte(\hdd, s1)
                            [] getReg(Operands(MI, 0)) = "IY" ->
                                 emitByte(\hfd, s1)
                            [] OTHER ->
                                 report_fatal_instr_problem(MI.opcode, "Allowed registers are IX, IY.", s1)
                IN IF Failed(s4) THEN s4 ELSE
                emitBytes(<<\h9e, getImm(Operands(MI, 1))>>, s4)

\* case Z80::SBC8ap (lines 4554-4567)
case_SBC8ap(MI, numOperands, s) ==
  LET s1 == check_num_operands(MI.opcode, 1, numOperands, s)
  IN IF Failed(s1) THEN s1 ELSE
  IF ~(isReg(Operands(MI, 0)))
    THEN report_fatal_instr_problem(MI.opcode, "Operand should be register.", s1)
    ELSE LET s2 == CASE getReg(Operands(MI, 0)) = "HL" ->
                          s1
                     [] OTHER ->
                          report_fatal_instr_problem(MI.opcode, "The only allowed register is HL.", s1)
         IN IF Failed(s2) THEN s2 ELSE
         emitByte(\h9e, s2)

\* case Z80::SBC8ar (lines 4568-4631)
case_SBC8ar(MI, numOperands, s) ==
  LET s1 == check_num_operands(MI.opcode, 1, numOperands, s)
  IN IF Failed(s1) THEN s1 ELSE
  IF ~(isReg(Operands(MI, 0)))
    THEN report_fatal_instr_problem(MI.opcode, "Operand should be register.", s1)
    ELSE CASE getReg(Operands(MI, 0)) = "A" ->
                emitByte(\h9f, s1)
           [] getReg(Operands(MI, 0)) = "B" ->
                emitByte(\h98, s1)
           [] getReg(Operands(MI, 0)) = "C" ->
                emitByte(\h99, s1)
           [] getReg(Operands(MI, 0)) = "D" ->
                emitByte(\h9a, s1)
           [] getReg(Operands(MI, 0)) = "E" ->
                emitByte(\h9b, s1)
           [] getReg(Operands(MI, 0)) = "H" ->
                emitByte(\h9c, s1)
           [] getReg(Operands(MI, 0)) = "L" ->
                emitByte(\h9d, s1)
           [] getReg(Operands(MI, 0)) = "IXH" ->
                emitBytes(<<\he5, \hdd, \he5, \he1, \h9c, \he1>>, s1)
           [] getReg(Operands(MI, 0)) = "IXL" ->
                emitBytes(<<\he5, \hdd, \he5, \he1, \h9d, \he1>>, s1)
           [] getReg(Operands(MI, 0)) = "IYH" ->
                emitBytes(<<\he5, \hfd, \he5, \he1, \h9c, \he1>>, s1)
           [] getReg(Operands(MI, 0)) = "IYL" ->
                emitBytes(<<\he5, \hfd, \he5, \he1, \h9d, \he1>>, s1)
           [] OTHER ->
                report_fatal_instr_problem(MI.opcode, "Allowed register are A, B, C, D, E, H, L.", s1)

\* case Z80::SCF (lines 4632-4635)
case_SCF(MI, numOperands, s) ==
  LET s1 == check_num_operands(MI.opcode, 0, numOperands, s)
  IN IF Failed(s1) THEN s1 ELSE
  emitByte(\h37, s1)

\* case Z80::SET8bg (lines 4636-4728)
case_SET8bg(MI, numOperands, s) ==
  LET s1 == check_num_operands(MI.opcode, 2, numOperands, s)
  IN IF Failed(s1) THEN s1 ELSE
  IF ~(isImm(Operands(MI, 0)))
    THEN report_fatal_instr_problem(MI.opcode, "First operand should be immediate.", s1)
    ELSE IF 8 <= uint8_t(getImm(Operands(MI, 0)))
           THEN report_fatal_instr_problem(MI.opcode, "First operand should be in range 0..7.", s1)
           ELSE IF ~(isReg(Operands(MI, 1)))
                  THEN report_fatal_instr_problem(MI.opcode, "Second operand should be register.", s1)
                  ELSE CASE getReg(Operands(MI, 1)) = "A" ->
                              emitBytes(<<\hcb, BitOr(shl(uint8_t(getImm(Operands(MI, 0))), 3), \hc7)>>, s1)
                         [] getReg(Operands(MI, 1)) = "B" ->
                              emitBytes(<<\hcb, BitOr(shl(uint8_t(getImm(Operands(MI, 0))), 3), \hc0)>>, s1)
                         [] getReg(Operands(MI, 1)) = "C" ->
                              emitBytes(<<\hcb, BitOr(shl(uint8_t(getImm(Operands(MI, 0))), 3), \hc1)>>, s1)
                         [] getReg(Operands(MI, 1)) = "D" ->
                              emitBytes(<<\hcb, BitOr(shl(uint8_t(getImm(Operands(MI, 0))), 3), \hc2)>>, s1)
                         [] getReg(Operands(MI, 1)) = "E" ->
                              emitBytes(<<\hcb, BitOr(shl(uint8_t(getImm(Operands(MI, 0))), 3), \hc3)>>, s1)
                         [] getReg(Operands(MI, 1)) = "H" ->
                              emitBytes(<<\hcb, BitOr(shl(uint8_t(getImm(Operands(MI, 0))), 3), \hc4)>>, s1)
                         [] getReg(Operands(MI, 1)) = "L" ->
                              emitBytes(<<\hcb, BitOr(shl(uint8_t(getImm(Operands(MI, 0))), 3), \hc5)>>, s1)
                         [] getReg(Operands(MI, 1)) = "IXH" ->
                              emitBytes(<<\he5, \hdd, \he5, \he1, \hcb, BitOr(shl(uint8_t(getImm(Operands(MI, 0))), 3), \hc4), \he1>>, s1)
                         [] getReg(Operands(MI, 1)) = "IXL" ->
                              emitBytes(<<\he5, \hdd, \he5, \he1, \hcb, BitOr(shl(uint8_t(getImm(Operands(MI, 0))), 3), \hc5), \he1>>, s1)
                         [] getReg(Operands(MI, 1)) = "IYH" ->
                              emitBytes(<<\he5, \hfd, \he5, \he1, \hcb, BitOr(shl(uint8_t(getImm(Operands(MI, 0))), 3), \hc4), \he1>>, s1)
                         [] getReg(Operands(MI, 1)) = "IYL" ->
                              emitBytes(<<\he5, \hfd, \he5, \he1, \hcb, BitOr(shl(uint8_t(getImm(Operands(MI, 0))), 3), \hc5), \he1>>, s1)
                         [] OTHER ->
                              report_fatal_instr_problem(MI.opcode, "Allowed register are A, B, C, D, E, H, L.", s1)

\* case Z80::SET8bo (lines 4729-4759)
case_SET8bo(MI, numOperands, s) ==
  LET s1 == check_num_operands(MI.opcode, 3, numOperands, s)
  IN IF Failed(s1) THEN s1 ELSE
  IF ~(isImm(Operands(MI, 0)))
    THEN report_fatal_instr_problem(MI.opcode, "First operand should be immediate.", s1)
    ELSE IF 8 <= uint8_t(getImm(Operands(MI, 0)))
           THEN report_fatal_instr_problem(MI.opcode, "First operand should be in range 0..7.", s1)
           ELSE IF ~(isReg(Operands(MI, 1)))
                  THEN report_fatal_instr_problem(MI.opcode, "Second operand should be register.", s1)
                  ELSE IF ~(isImm(Operands(MI, 2)))
                         THEN report_fatal_instr_problem(MI.opcode, "Third operand should be immediate.", s1)
                         ELSE LET s4 == CASE getReg(Operands(MI, 1)) = "IX" ->
                                               emitByte(\hdd, s1)
                                          [] getReg(Operands(MI, 1)) = "IY" ->
                                               emitByte(\hfd, s1)
                                          [] OTHER ->
                                               report_fatal_instr_problem(MI.opcode, "Allowed registers are IX, IY.", s1)
                              IN IF Failed(s4) THEN s4 ELSE
                              emitBytes(<<\hcb, getImm(Operands(MI, 2)), BitOr(shl(uint8_t(getImm(Operands(MI, 0))), 3), \hc6)>>, s4)

\* case Z80::SET8bp (lines 4760-4782)
case_SET8bp(MI, numOperands, s) ==
  LET s1 == check_num_operands(MI.opcode, 2, numOperands, s)
  IN IF Failed(s1) THEN s1 ELSE
  IF ~(isImm(Operands(MI, 0)))
    THEN report_fatal_instr_problem(MI.opcode, "First operand should be immediate.", s1)
    ELSE IF 8 <= uint8_t(getImm(Operands(MI, 0)))
           THEN report_fatal_instr_problem(MI.opcode, "First operand should be in range 0..7.", s1)
           ELSE IF ~(isReg(Operands(MI, 1)))
                  THEN report_fatal_instr_problem(MI.opcode, "Second operand should be register.", s1)
                  ELSE LET s2 == CASE getReg(Operands(MI, 1)) = "HL" ->
                                        s1
                                   [] OTHER ->
                                        report_fatal_instr_problem(MI.opcode, "The only allowed register is HL.", s1)
                       IN IF Failed(s2) THEN s2 ELSE
                       emitBytes(<<\hcb, BitOr(shl(uint8_t(getImm(Operands(MI, 0))), 3), \hc6)>>, s2)

\* case Z80::SLA8o (lines 4783-4805)
case_SLA8o(MI, numOperands, s) ==
  LET s1 == check_num_operands(MI.opcode, 2, numOperands, s)
  IN IF Failed(s1) THEN s1 ELSE
  IF ~(isReg(Operands(MI, 0)))
    THEN report_fatal_instr_problem(MI.opcode, "First operand should be register.", s1)
    ELSE IF ~(isImm(Operands(MI, 1)))
           THEN report_fatal_instr_problem(MI.opcode, "Second operand should be immediate.", s1)
           ELSE LET s4 == CASE getReg(Operands(MI, 0)) = "IX" ->
                                 emitByte(\hdd, s1)
                            [] getReg(Operands(MI, 0)) = "IY" ->
                                 emitByte(\hfd, s1)
                            [] OTHER ->
                                 report_fatal_instr_problem(MI.opcode, "Allowed registers are IX, IY.", s1)
                IN IF Failed(s4) THEN s4 ELSE
                emitBytes(<<\hcb, getImm(Operands(MI, 1)), \h26>>, s4)

\* case Z80::SLA8p (lines 4806-4820)
case_SLA8p(MI, numOperands, s) ==
  LET s1 == check_num_operands(MI.opcode, 1, numOperands, s)
  IN IF Failed(s1) THEN s1 ELSE
  IF ~(isReg(Operands(MI, 0)))
    THEN report_fatal_instr_problem(MI.opcode, "Operand should be register.", s1)
    ELSE LET s2 == CASE getReg(Operands(MI, 0)) = "HL" ->
                          s1
                     [] OTHER ->
                          report_fatal_instr_problem(MI.opcode, "The only allowed register is HL.", s1)
         IN IF Failed(s2) THEN s2 ELSE
         emitBytes(<<\hcb, \h26>>, s2)

\* case Z80::SLA8r (lines 4821-4908)
case_SLA8r(MI, numOperands, s) ==
  IF numOperands = 0
    THEN report_fatal_instr_problem(MI.opcode, "Operand missing.", s)
    ELSE IF ~(isReg(Operands(MI, 0)))
           THEN report_fatal_instr_problem(MI.opcode, "An operand should be an register.", s)
           ELSE CASE getReg(Operands(MI, 0)) = "A" ->
                       emitBytes(<<\hcb, \h27>>, s)
                  [] getReg(Operands(MI, 0)) = "B" ->
                       emitBytes(<<\hcb, \h20>>, s)
                  [] getReg(Operands(MI, 0)) = "C" ->
                       emitBytes(<<\hcb, \h21>>, s)
                  [] getReg(Operands(MI, 0)) = "D" ->
                       emitBytes(<<\hcb, \h22>>, s)
                  [] getReg(Operands(MI, 0)) = "E" ->
                       emitBytes(<<\hcb, \h23>>, s)
                  [] getReg(Operands(MI, 0)) = "H" ->
                       emitBytes(<<\hcb, \h24>>, s)
                  [] getReg(Operands(MI, 0)) = "L" ->
                       emitBytes(<<\hcb, \h25>>, s)
                  [] getReg(Operands(MI, 0)) = "IXH" ->
                       emitBytes(<<\he5, \hdd, \he5, \he1, \hcb, \h24, \he5, \hdd, \he1, \he1>>, s)
                  [] getReg(Operands(MI, 0)) = "IXL" ->
                       emitBytes(<<\he5, \hdd, \he5, \he1, \hcb, \h25, \he5, \hdd, \he1, \he1>>, s)
                  [] getReg(Operands(MI, 0)) = "IYH" ->
                       emitBytes(<<\he5, \hfd, \he5, \he1, \hcb, \h24, \he5, \hfd, \he1, \he1>>, s)
                  [] getReg(Operands(MI, 0)) = "IYL" ->
                       emitBytes(<<\he5, \hfd, \he5, \he1, \hcb, \h25, \he5, \hfd, \he1, \he1>>, s)
                  [] OTHER ->
                       report_fatal_instr_problem(MI.opcode, "Allowed register are A, B, C, D, E, H, L.", s)

\* case Z80::SRA8o (lines 4909-4931)
case_SRA8o(MI, numOperands, s) ==
  LET s1 == check_num_operands(MI.opcode, 2, numOperands, s)
  IN IF Failed(s1) THEN s1 ELSE
  IF ~(isReg(Operands(MI, 0)))
    THEN report_fatal_instr_problem(MI.opcode, "First operand should be register.", s1)
    ELSE IF ~(isImm(Operands(MI, 1)))
           THEN report_fatal_instr_problem(MI.opcode, "Second operand should be immediate.", s1)
           ELSE LET s4 == CASE getReg(Operands(MI, 0)) = "IX" ->
                                 emitByte(\hdd, s1)
                            [] getReg(Operands(MI, 0)) = "IY" ->
                                 emitByte(\hfd, s1)
                            [] OTHER ->
                                 report_fatal_instr_problem(MI.opcode, "Allowed registers are IX, IY.", s1)
                IN IF Failed(s4) THEN s4 ELSE
                emitBytes(<<\hcb, getImm(Operands(MI, 1)), \h2e>>, s4)

\* case Z80::SRA8p (lines 4932-4946)
case_SRA8p(MI, numOperands, s) ==
  LET s1 == check_num_operands(MI.opcode, 1, numOperands, s)
  IN IF Failed(s1) THEN s1 ELSE
  IF ~(isReg(Operands(MI, 0)))
    THEN report_fatal_instr_problem(MI.opcode, "Operand should be register.", s1)
    ELSE LET s2 == CASE getReg(Operands(MI, 0)) = "HL" ->
                          s1
                     [] OTHER ->
                          report_fatal_instr_problem(MI.opcode, "The only allowed register is HL.", s1)
         IN IF Failed(s2) THEN s2 ELSE
         emitBytes(<<\hcb, \h2e>>, s2)

\* case Z80::SRA8r (lines 4947-5034)
case_SRA8r(MI, numOperands, s) ==
  IF numOperands = 0
    THEN report_fatal_instr_problem(MI.opcode, "Operand missing.", s)
    ELSE IF ~(isReg(Operands(MI, 0)))
           THEN report_fatal_instr_problem(MI.opcode, "An operand should be an register.", s)
           ELSE CASE getReg(Operands(MI, 0)) = "A" ->
                       emitBytes(<<\hcb, \h2f>>, s)
                  [] getReg(Operands(MI, 0)) = "B" ->
                       emitBytes(<<\hcb, \h28>>, s)
                  [] getReg(Operands(MI, 0)) = "C" ->
                       emitBytes(<<\hcb, \h29>>, s)
                  [] getReg(Operands(MI, 0)) = "D" ->
                       emitBytes(<<\hcb, \h2a>>, s)
                  [] getReg(Operands(MI, 0)) = "E" ->
                       emitBytes(<<\hcb, \h2b>>, s)
                  [] getReg(Operands(MI, 0)) = "H" ->
                       emitBytes(<<\hcb, \h2c>>, s)
                  [] getReg(Operands(MI, 0)) = "L" ->
                       emitBytes(<<\hcb, \h2d>>, s)
                  [] getReg(Operands(MI, 0)) = "IXH" ->
                       emitBytes(<<\he5, \hdd, \he5, \he1, \hcb, \h2c, \he5, \hdd, \he1, \he1>>, s)
                  [] getReg(Operands(MI, 0)) = "IXL" ->
                       emitBytes(<<\he5, \hdd, \he5, \he1, \hcb, \h2d, \he5, \hdd, \he1, \he1>>, s)
                  [] getReg(Operands(MI, 0)) = "IYH" ->
                       emitBytes(<<\he5, \hfd, \he5, \he1, \hcb, \h2c, \he5, \hfd, \he1, \he1>>, s)
                  [] getReg(Operands(MI, 0)) = "IYL" ->
                       emitBytes(<<\he5, \hfd, \he5, \he1, \hcb, \h2d, \he5, \hfd, \he1, \he1>>, s)
                  [] OTHER ->
                       report_fatal_instr_problem(MI.opcode, "Allowed register are A, B, C, D, E, H, L.", s)

\* case Z80::SRL8o (lines 5035-5057)
case_SRL8o(MI, numOperands, s) ==
  LET s1 == check_num_operands(MI.opcode, 2, numOperands, s)
  IN IF Failed(s1) THEN s1 ELSE
  IF ~(isReg(Operands(MI, 0)))
    THEN report_fatal_instr_problem(MI.opcode, "First operand should be register.", s1)
    ELSE IF ~(isImm(Operands(MI, 1)))
           THEN report_fatal_instr_problem(MI.opcode, "Second operand should be immediate.", s1)
           ELSE LET s4 == CASE getReg(Operands(MI, 0)) = "IX" ->
                                 emitByte(\hdd, s1)
                            [] getReg(Operands(MI, 0)) = "IY" ->
                                 emitByte(\hfd, s1)
                            [] OTHER ->
                                 report_fatal_instr_problem(MI.opcode, "Allowed registers are IX, IY.", s1)
                IN IF Failed(s4) THEN s4 ELSE
                emitBytes(<<\hcb, getImm(Operands(MI, 1)), \h3e>>, s4)

\* case Z80::SRL8p (lines 5058-5072)
case_SRL8p(MI, numOperands, s) ==
  LET s1 == check_num_operands(MI.opcode, 1, numOperands, s)
  IN IF Failed(s1) THEN s1 ELSE
  IF ~(isReg(Operands(MI, 0)))
    THEN report_fatal_instr_problem(MI.opcode, "Operand should be register.", s1)
    ELSE LET s2 == CASE getReg(Operands(MI, 0)) = "HL" ->
                          s1
                     [] OTHER ->
                          report_fatal_instr_problem(MI.opcode, "The only allowed register is HL.", s1)
         IN IF Failed(s2) THEN s2 ELSE
         emitBytes(<<\hcb, \h3e>>, s2)

\* case Z80::SRL8r (lines 5073-5160)
case_SRL8r(MI, numOperands, s) ==
  IF numOperands = 0
    THEN report_fatal_instr_problem(MI.opcode, "Operand missing.", s)
    ELSE IF ~(isReg(Operands(MI, 0)))
           THEN report_fatal_instr_problem(MI.opcode, "An operand should be an register.", s)
           ELSE CASE getReg(Operands(MI, 0)) = "A" ->
                       emitBytes(<<\hcb, \h3f>>, s)
                  [] getReg(Operands(MI, 0)) = "B" ->
                       emitBytes(<<\hcb, \h38>>, s)
                  [] getReg(Operands(MI, 0)) = "C" ->
                       emitBytes(<<\hcb, \h39>>, s)
                  [] getReg(Operands(MI, 0)) = "D" ->
                       emitBytes(<<\hcb, \h3a>>, s)
                  [] getReg(Operands(MI, 0)) = "E" ->
                       emitBytes(<<\hcb, \h3b>>, s)
                  [] getReg(Operands(MI, 0)) = "H" ->
                       emitBytes(<<\hcb, \h3c>>, s)
                  [] getReg(Operands(MI, 0)) = "L" ->
                       emitBytes(<<\hcb, \h3d>>, s)
                  [] getReg(Operands(MI, 0)) = "IXH" ->
                       emitBytes(<<\he5, \hdd, \he5, \he1, \hcb, \h3c, \he5, \hdd, \he1, \he1>>, s)
                  [] getReg(Operands(MI, 0)) = "IXL" ->
                       emitBytes(<<\he5, \hdd, \he5, \he1, \hcb, \h3d, \he5, \hdd, \he1, \he1>>, s)
                  [] getReg(Operands(MI, 0)) = "IYH" ->
                       emitBytes(<<\he5, \hfd, \he5, \he1, \hcb, \h3c, \he5, \hfd, \he1, \he1>>, s)
                  [] getReg(Operands(MI, 0)) = "IYL" ->
                       emitBytes(<<\he5, \hfd, \he5, \he1, \hcb, \h3d, \he5, \hfd, \he1, \he1>>, s)
                  [] OTHER ->
                       report_fatal_instr_problem(MI.opcode, "Allowed register are A, B, C, D, E, H, L.", s)

\* case Z80::SUB8ai (lines 5161-5168)
case_SUB8ai(MI, numOperands, s) ==
  LET s1 == check_num_operands(MI.opcode, 1, numOperands, s)
  IN IF Failed(s1) THEN s1 ELSE
  IF ~(isImm(Operands(MI, 0)))
    THEN report_fatal_instr_problem(MI.opcode, "Operand should be immediate.", s1)
    ELSE emitBytes(<<\hd6, getImm(Operands(MI, 0))>>, s1)

\* case Z80::SUB8ao (lines 5169-5190)
case_SUB8ao(MI, numOperands, s) ==
  LET s1 == check_num_operands(MI.opcode, 2, numOperands, s)
  IN IF Failed(s1) THEN s1 ELSE
  IF ~(isReg(Operands(MI, 0)))
    THEN report_fatal_instr_problem(MI.opcode, "First operand should be register.", s1)
    ELSE IF ~(isImm(Operands(MI, 1)))
           THEN report_fatal_instr_problem(MI.opcode, "Second operand should be immediate.", s1)
           ELSE LET s4 == CASE getReg(Operands(MI, 0)) = "IX" ->
                                 emitByte(\hdd, s1)
                            [] getReg(Operands(MI, 0)) = "IY" ->
                                 emitByte(\hfd, s1)
                            [] OTHER ->
                                 report_fatal_instr_problem(MI.opcode, "Allowed registers are IX, IY.", s1)
                IN IF Failed(s4) THEN s4 ELSE
                emitBytes(<<\h96, getImm(Operands(MI, 1))>>, s4)

\* case Z80::SUB8ap (lines 5191-5204)
case_SUB8ap(MI, numOperands, s) ==
  LET s1 == check_num_operands(MI.opcode, 1, numOperands, s)
  IN IF Failed(s1) THEN s1 ELSE
  IF ~(isReg(Operands(MI, 0)))
    THEN report_fatal_instr_problem(MI.opcode, "Operand should be register.", s1)
    ELSE LET s2 == CASE getReg(Operands(MI, 0)) = "HL" ->
                          s1
                     [] OTHER ->
                          report_fatal_instr_problem(MI.opcode, "The only allowed register is HL.", s1)
         IN IF Failed(s2) THEN s2 ELSE
         emitByte(\h96, s2)

\* case Z80::SUB8ar (lines 5205-5268)
case_SUB8ar(MI, numOperands, s) ==
  LET s1 == check_num_operands(MI.opcode, 1, numOperands, s)
  IN IF Failed(s1) THEN s1 ELSE
  IF ~(isReg(Operands(MI, 0)))
    THEN report_fatal_instr_problem(MI.opcode, "Operand should be register.", s1)
    ELSE CASE getReg(Operands(MI, 0)) = "A" ->
                emitByte(\h97, s1)
           [] getReg(Operands(MI, 0)) = "B" ->
                emitByte(\h90, s1)
           [] getReg(Operands(MI, 0)) = "C" ->
                emitByte(\h91, s1)
           [] getReg(Operands(MI, 0)) = "D" ->
                emitByte(\h92, s1)
           [] getReg(Operands(MI, 0)) = "E" ->
                emitByte(\h93, s1)
           [] getReg(Operands(MI, 0)) = "H" ->
                emitByte(\h94, s1)
           [] getReg(Operands(MI, 0)) = "L" ->
                emitByte(\h95, s1)
           [] getReg(Operands(MI, 0)) = "IXH" ->
                emitBytes(<<\he5, \hdd, \he5, \he1, \h94, \he1>>, s1)
           [] getReg(Operands(MI, 0)) = "IXL" ->
                emitBytes(<<\he5, \hdd, \he5, \he1, \h95, \he1>>, s1)
           [] getReg(Operands(MI, 0)) = "IYH" ->
                emitBytes(<<\he5, \hfd, \he5, \he1, \h94, \he1>>, s1)
           [] getReg(Operands(MI, 0)) = "IYL" ->
                emitBytes(<<\he5, \hfd, \he5, \he1, \h95, \he1>>, s1)
           [] OTHER ->
                report_fatal_instr_problem(MI.opcode, "Allowed register are A, B, C, D, E, H, L.", s1)

\* case Z80::XOR8ai (lines 5269-5276)
case_XOR8ai(MI, numOperands, s) ==
  LET s1 == check_num_operands(MI.opcode, 1, numOperands, s)
  IN IF Failed(s1) THEN s1 ELSE
  IF ~(isImm(Operands(MI, 0)))
    THEN report_fatal_instr_problem(MI.opcode, "Operand should be immediate.", s1)
    ELSE emitBytes(<<\hee, getImm(Operands(MI, 0))>>, s1)

\* case Z80::XOR8ao (lines 5277-5298)
case_XOR8ao(MI, numOperands, s) ==
  LET s1 == check_num_operands(MI.opcode, 2, numOperands, s)
  IN IF Failed(s1) THEN s1 ELSE
  IF ~(isReg(Operands(MI, 0)))
    THEN report_fatal_instr_problem(MI.opcode, "First operand should be register.", s1)
    ELSE IF ~(isImm(Operands(MI, 1)))
           THEN report_fatal_instr_problem(MI.opcode, "Second operand should be immediate.", s1)
           ELSE LET s4 == CASE getReg(Operands(MI, 0)) = "IX" ->
                                 emitByte(\hdd, s1)
                            [] getReg(Operands(MI, 0)) = "IY" ->
                                 emitByte(\hfd, s1)
                            [] OTHER ->
                                 report_fatal_instr_problem(MI.opcode, "Allowed registers are IX, IY.", s1)
                IN IF Failed(s4) THEN s4 ELSE
                emitBytes(<<\hae, getImm(Operands(MI, 1))>>, s4)

\* case Z80::XOR8ap (lines 5299-5312)
case_XOR8ap(MI, numOperands, s) ==
  LET s1 == check_num_operands(MI.opcode, 1, numOperands, s)
  IN IF Failed(s1) THEN s1 ELSE
  IF ~(isReg(Operands(MI, 0)))
    THEN report_fatal_instr_problem(MI.opcode, "Operand should be register.", s1)
    ELSE LET s2 == CASE getReg(Operands(MI, 0)) = "HL" ->
                          s1
                     [] OTHER ->
                          report_fatal_instr_problem(MI.opcode, "The only allowed register is HL.", s1)
         IN IF Failed(s2) THEN s2 ELSE
         emitByte(\hae, s2)

\* case Z80::XOR8ar (lines 5313-5376)
case_XOR8ar(MI, numOperands, s) ==
  LET s1 == check_num_operands(MI.opcode, 1, numOperands, s)
  IN IF Failed(s1) THEN s1 ELSE
  IF ~(isReg(Operands(MI, 0)))
    THEN report_fatal_instr_problem(MI.opcode, "Operand should be register.", s1)
    ELSE CASE getReg(Operands(MI, 0)) = "A" ->
                emitByte(\haf, s1)
           [] getReg(Operands(MI, 0)) = "B" ->
                emitByte(\ha8, s1)
           [] getReg(Operands(MI, 0)) = "C" ->
                emitByte(\ha9, s1)
           [] getReg(Operands(MI, 0)) = "D" ->
                emitByte(\haa, s1)
           [] getReg(Operands(MI, 0)) = "E" ->
                emitByte(\hab, s1)
           [] getReg(Operands(MI, 0)) = "H" ->
                emitByte(\hac, s1)
           [] getReg(Operands(MI, 0)) = "L" ->
                emitByte(\had, s1)
           [] getReg(Operands(MI, 0)) = "IXH" ->
                emitBytes(<<\he5, \hdd, \he5, \he1, \hac, \he1>>, s1)
           [] getReg(Operands(MI, 0)) = "IXL" ->
                emitBytes(<<\he5, \hdd, \he5, \he1, \had, \he1>>, s1)
           [] getReg(Operands(MI, 0)) = "IYH" ->
                emitBytes(<<\he5, \hfd, \he5, \he1, \hac, \he1>>, s1)
           [] getReg(Operands(MI, 0)) = "IYL" ->
                emitBytes(<<\he5, \hfd, \he5, \he1, \had, \he1>>, s1)
           [] OTHER ->
                report_fatal_instr_problem(MI.opcode, "Allowed register are A, B, C, D, E, H, L.", s1)

\* case Z80::ADC16SP, ADC16aa, ADC16ao, JP16, JP16CC, JR, JRCC, LD16or, LD16pr, LD16ro, LD16rp (lines 5377-5389)
case_ADC16SP(MI, numOperands, s) ==
  report_fatal_instr_problem(MI.opcode, "Not implemented.", s)

\* switch (opcode), lines 149-5395
switch_opcode(MI, numOperands, s) ==
  CASE MI.opcode = "ADC8ai" -> case_ADC8ai(MI, numOperands, s)
    [] MI.opcode = "ADC8ao" -> case_ADC8ao(MI, numOperands, s)
    [] MI.opcode = "ADC8ap" -> case_ADC8ap(MI, numOperands, s)
    [] MI.opcode = "ADC8ar" -> case_ADC8ar(MI, numOperands, s)
    [] MI.opcode = "ADD16SP" -> case_ADD16SP(MI, numOperands, s)
    [] MI.opcode = "ADD16aa" -> case_ADD16aa(MI, numOperands, s)
    [] MI.opcode = "ADD16ao" -> case_ADD16ao(MI, numOperands, s)
    [] MI.opcode = "ADD8ai" -> case_ADD8ai(MI, numOperands, s)
    [] MI.opcode = "ADD8ao" -> case_ADD8ao(MI, numOperands, s)
    [] MI.opcode = "ADD8ap" -> case_ADD8ap(MI, numOperands, s)
    [] MI.opcode = "ADD8ar" -> case_ADD8ar(MI, numOperands, s)
    [] MI.opcode = "AND8ai" -> case_AND8ai(MI, numOperands, s)
    [] MI.opcode = "AND8ao" -> case_AND8ao(MI, numOperands, s)
    [] MI.opcode = "AND8ap" -> case_AND8ap(MI, numOperands, s)
    [] MI.opcode = "AND8ar" -> case_AND8ar(MI, numOperands, s)
    [] MI.opcode = "BIT8bg" -> case_BIT8bg(MI, numOperands, s)
    [] MI.opcode = "BIT8bo" -> case_BIT8bo(MI, numOperands, s)
    [] MI.opcode = "BIT8bp" -> case_BIT8bp(MI, numOperands, s)
    [] MI.opcode = "CALL16" -> case_CALL16(MI, numOperands, s)
    [] MI.opcode = "CALL16CC" -> case_CALL16CC(MI, numOperands, s)
    [] MI.opcode = "CCF" -> case_CCF(MI, numOperands, s)
    [] MI.opcode = "CP8ai" -> case_CP8ai(MI, numOperands, s)
    [] MI.opcode = "CP8ao" -> case_CP8ao(MI, numOperands, s)
    [] MI.opcode = "CP8ap" -> case_CP8ap(MI, numOperands, s)
    [] MI.opcode = "CP8ar" -> case_CP8ar(MI, numOperands, s)
    [] MI.opcode = "CPD16" -> case_CPD16(MI, numOperands, s)
    [] MI.opcode = "CPDR16" -> case_CPDR16(MI, numOperands, s)
    [] MI.opcode = "CPI16" -> case_CPI16(MI, numOperands, s)
    [] MI.opcode = "CPIR16" -> case_CPIR16(MI, numOperands, s)
    [] MI.opcode = "CPL" -> case_CPL(MI, numOperands, s)
    [] MI.opcode = "DEC16SP" -> case_DEC16SP(MI, numOperands, s)
    [] MI.opcode = "DEC16r" -> case_DEC16r(MI, numOperands, s)
    [] MI.opcode = "DEC8o" -> case_DEC8o(MI, numOperands, s)
    [] MI.opcode = "DEC8p" -> case_DEC8p(MI, numOperands, s)
    [] MI.opcode = "DEC8r" -> case_DEC8r(MI, numOperands, s)
    [] MI.opcode = "DI" -> case_DI(MI, numOperands, s)
    [] MI.opcode = "EI" -> case_EI(MI, numOperands, s)
    [] MI.opcode = "EX16DE" -> case_EX16DE(MI, numOperands, s)
    [] MI.opcode = "EX16SP" -> case_EX16SP(MI, numOperands, s)
    [] MI.opcode = "EXAF" -> case_EXAF(MI, numOperands, s)
    [] MI.opcode = "EXX" -> case_EXX(MI, numOperands, s)
    [] MI.opcode = "INC16SP" -> case_INC16SP(MI, numOperands, s)
    [] MI.opcode = "INC16r" -> case_INC16r(MI, numOperands, s)
    [] MI.opcode = "INC8o" -> case_INC8o(MI, numOperands, s)
    [] MI.opcode = "INC8p" -> case_INC8p(MI, numOperands, s)
    [] MI.opcode = "INC8r" -> case_INC8r(MI, numOperands, s)
    [] MI.opcode = "IND16" -> case_IND16(MI, numOperands, s)
    [] MI.opcode = "INDR16" -> case_INDR16(MI, numOperands, s)
    [] MI.opcode = "INI16" -> case_INI16(MI, numOperands, s)
    [] MI.opcode = "INIR16" -> case_INIR16(MI, numOperands, s)
    [] MI.opcode = "JP16r" -> case_JP16r(MI, numOperands, s)
    [] MI.opcode = "LD16SP" -> case_LD16SP(MI, numOperands, s)
    [] MI.opcode = "LD16am" -> case_LD16am(MI, numOperands, s)
    [] MI.opcode = "LD16ma" -> case_LD16ma(MI, numOperands, s)
    [] MI.opcode = "LD16mo" -> case_LD16mo(MI, numOperands, s)
    [] MI.opcode = "LD16om" -> case_LD16om(MI, numOperands, s)
    [] MI.opcode = "LD16ri" -> case_LD16ri(MI, numOperands, s)
    [] MI.opcode = "LD8am" -> case_LD8am(MI, numOperands, s)
    [] MI.opcode \in {"LD8gg", "LD8xx", "LD8yy"} -> case_LD8gg(MI, numOperands, s)
    [] MI.opcode = "LD8go" -> case_LD8go(MI, numOperands, s)
    [] MI.opcode = "LD8gp" -> case_LD8gp(MI, numOperands, s)
    [] MI.opcode = "LD8ma" -> case_LD8ma(MI, numOperands, s)
    [] MI.opcode = "LD8og" -> case_LD8og(MI, numOperands, s)
    [] MI.opcode = "LD8oi" -> case_LD8oi(MI, numOperands, s)
    [] MI.opcode = "LD8pg" -> case_LD8pg(MI, numOperands, s)
    [] MI.opcode = "LD8ri" -> case_LD8ri(MI, numOperands, s)
    [] MI.opcode = "LD8pi" -> case_LD8pi(MI, numOperands, s)
    [] MI.opcode = "LDD16" -> case_LDD16(MI, numOperands, s)
    [] MI.opcode = "LDDR16" -> case_LDDR16(MI, numOperands, s)
    [] MI.opcode = "LDI16" -> case_LDI16(MI, numOperands, s)
    [] MI.opcode = "LDIR16" -> case_LDIR16(MI, numOperands, s)
    [] MI.opcode = "LEA16ro" -> case_LEA16ro(MI, numOperands, s)
    [] MI.opcode = "NEG" -> case_NEG(MI, numOperands, s)
    [] MI.opcode = "NOP" -> case_NOP(MI, numOperands, s)
    [] MI.opcode = "OR8ai" -> case_OR8ai(MI, numOperands, s)
    [] MI.opcode = "OR8ao" -> case_OR8ao(MI, numOperands, s)
    [] MI.opcode = "OR8ap" -> case_OR8ap(MI, numOperands, s)
    [] MI.opcode = "OR8ar" -> case_OR8ar(MI, numOperands, s)
    [] MI.opcode = "OUTD16" -> case_OUTD16(MI, numOperands, s)
    [] MI.opcode = "OUTDR16" -> case_OUTDR16(MI, numOperands, s)
    [] MI.opcode = "OUTI16" -> case_OUTI16(MI, numOperands, s)
    [] MI.opcode = "OUTIR16" -> case_OUTIR16(MI, numOperands, s)
    [] MI.opcode = "POP16AF" -> case_POP16AF(MI, numOperands, s)
    [] MI.opcode = "POP16r" -> case_POP16r(MI, numOperands, s)
    [] MI.opcode = "PUSH16AF" -> case_PUSH16AF(MI, numOperands, s)
    [] MI.opcode = "PUSH16r" -> case_PUSH16r(MI, numOperands, s)
    [] MI.opcode = "RES8bg" -> case_RES8bg(MI, numOperands, s)
    [] MI.opcode = "RES8bo" -> case_RES8bo(MI, numOperands, s)
    [] MI.opcode = "RES8bp" -> case_RES8bp(MI, numOperands, s)
    [] MI.opcode = "RET16" -> case_RET16(MI, numOperands, s)
    [] MI.opcode = "RET16CC" -> case_RET16CC(MI, numOperands, s)
    [] MI.opcode = "RETI16" -> case_RETI16(MI, numOperands, s)
    [] MI.opcode = "RETN16" -> case_RETN16(MI, numOperands, s)
    [] MI.opcode = "RL8o" -> case_RL8o(MI, numOperands, s)
    [] MI.opcode = "RL8p" -> case_RL8p(MI, numOperands, s)
    [] MI.opcode = "RL8r" -> case_RL8r(MI, numOperands, s)
    [] MI.opcode = "RLC8o" -> case_RLC8o(MI, numOperands, s)
    [] MI.opcode = "RLC8p" -> case_RLC8p(MI, numOperands, s)
    [] MI.opcode = "RLC8r" -> case_RLC8r(MI, numOperands, s)
    [] MI.opcode = "RR8o" -> case_RR8o(MI, numOperands, s)
    [] MI.opcode = "RR8p" -> case_RR8p(MI, numOperands, s)
    [] MI.opcode = "RR8r" -> case_RR8r(MI, numOperands, s)
    [] MI.opcode = "RRC8o" -> case_RRC8o(MI, numOperands, s)
    [] MI.opcode = "RRC8p" -> case_RRC8p(MI, numOperands, s)
    [] MI.opcode = "RRC8r" -> case_RRC8r(MI, numOperands, s)
    [] MI.opcode = "SBC16SP" -> case_SBC16SP(MI, numOperands, s)
    [] MI.opcode = "SBC16aa" -> case_SBC16aa(MI, numOperands, s)
    [] MI.opcode = "SBC16ao" -> case_SBC16ao(MI, numOperands, s)
    [] MI.opcode = "SBC8ai" -> case_SBC8ai(MI, numOperands, s)
    [] MI.opcode = "SBC8ao" -> case_SBC8ao(MI, numOperands, s)
    [] MI.opcode = "SBC8ap" -> case_SBC8ap(MI, numOperands, s)
    [] MI.opcode = "SBC8ar" -> case_SBC8ar(MI, numOperands, s)
    [] MI.opcode = "SCF" -> case_SCF(MI, numOperands, s)
    [] MI.opcode = "SET8bg" -> case_SET8bg(MI, numOperands, s)
    [] MI.opcode = "SET8bo" -> case_SET8bo(MI, numOperands, s)
    [] MI.opcode = "SET8bp" -> case_SET8bp(MI, numOperands, s)
    [] MI.opcode = "SLA8o" -> case_SLA8o(MI, numOperands, s)
    [] MI.opcode = "SLA8p" -> case_SLA8p(MI, numOperands, s)
    [] MI.opcode = "SLA8r" -> case_SLA8r(MI, numOperands, s)
    [] MI.opcode = "SRA8o" -> case_SRA8o(MI, numOperands, s)
    [] MI.opcode = "SRA8p" -> case_SRA8p(MI, numOperands, s)
    [] MI.opcode = "SRA8r" -> case_SRA8r(MI, numOperands, s)
    [] MI.opcode = "SRL8o" -> case_SRL8o(MI, numOperands, s)
    [] MI.opcode = "SRL8p" -> case_SRL8p(MI, numOperands, s)
    [] MI.opcode = "SRL8r" -> case_SRL8r(MI, numOperands, s)
    [] MI.opcode = "SUB8ai" -> case_SUB8ai(MI, numOperands, s)
    [] MI.opcode = "SUB8ao" -> case_SUB8ao(MI, numOperands, s)
    [] MI.opcode = "SUB8ap" -> case_SUB8ap(MI, numOperands, s)
    [] MI.opcode = "SUB8ar" -> case_SUB8ar(MI, numOperands, s)
    [] MI.opcode = "XOR8ai" -> case_XOR8ai(MI, numOperands, s)
    [] MI.opcode = "XOR8ao" -> case_XOR8ao(MI, numOperands, s)
    [] MI.opcode = "XOR8ap" -> case_XOR8ap(MI, numOperands, s)
    [] MI.opcode = "XOR8ar" -> case_XOR8ar(MI, numOperands, s)
    [] MI.opcode \in {"ADC16SP", "ADC16aa", "ADC16ao", "JP16", "JP16CC", "JR", "JRCC", "LD16or", "LD16pr", "LD16ro", "LD16rp"} -> case_ADC16SP(MI, numOperands, s)
    [] OTHER -> report_fatal_error("Not supported instr: ", s)

\* ------------------------------------------------------------------------
\* The pseudo instructions and the entry of encodeInstruction
\* ------------------------------------------------------------------------

\* case JQ taking the short jump whatever the configuration
case_JQ_AlwaysShort(MI, numOperands, cfg, s) ==
  LET s1 == check_num_operands(MI.opcode, 1, numOperands, s)
  IN IF Failed(s1) THEN s1 ELSE
  IF ~(isExpr(Operands(MI, 0)))
    THEN report_fatal_instr_problem(MI.opcode, "Operand should be an expression.", s1)
    ELSE LET s2 == emitByte(\h18, s1)
             s3 == push_back(MCFixup(s2.CurByte, getExpr(Operands(MI, 0)), "fixup_8_pcrel", MI.loc), s2)
         IN emitByte(0, s3)

\* case Z80::JQ; cfg.EMIT_JR_INSTEAD_OF_JP is the #ifdef of line 92
case_JQ(MI, numOperands, cfg, s) ==
  LET s1 == check_num_operands(MI.opcode, 1, numOperands, s)
  IN IF Failed(s1) THEN s1 ELSE
  IF ~(isExpr(Operands(MI, 0)))
    THEN report_fatal_instr_problem(MI.opcode, "Operand should be an expression.", s1)
    ELSE IF cfg.EMIT_JR_INSTEAD_OF_JP
           THEN LET s2 == emitByte(\h18, s1)
                    s3 == push_back(MCFixup(s2.CurByte, getExpr(Operands(MI, 0)), "fixup_8_pcrel", MI.loc), s2)
                IN emitByte(0, s3)
           ELSE LET s2 == emitByte(\hc3, s1)
                    s3 == push_back(MCFixup(s2.CurByte, getExpr(Operands(MI, 0)), "fixup_16", MI.loc), s2)
                IN emitBytes(<<0, 0>>, s3)

\* case JQCC with the opcode base of CALL cc in place of JP cc
case_JQCC_CallBase(MI, numOperands, cfg, s) ==
  LET s1 == check_num_operands(MI.opcode, 2, numOperands, s)
  IN IF Failed(s1) THEN s1 ELSE
  IF ~(isExpr(Operands(MI, 0)))
    THEN report_fatal_instr_problem(MI.opcode, "First operand should be an expression.", s1)
    ELSE IF ~(isImm(Operands(MI, 1)))
           THEN report_fatal_instr_problem(MI.opcode, "Second operand should be immediate.", s1)
           ELSE IF 8 <= uint8_t(getImm(Operands(MI, 1)))
                  THEN report_fatal_instr_problem(MI.opcode, "Second operand should be in range 0..7.", s1)
                  ELSE LET s2 == emitByte(BitOr(shl(uint8_t(getImm(Operands(MI, 1))), 3), \hc4), s1)
                           s3 == push_back(MCFixup(s2.CurByte, getExpr(Operands(MI, 0)), "fixup_16", MI.loc), s2)
                       IN emitBytes(<<0, 0>>, s3)

\* case Z80::JQCC; cfg.EMIT_JRCC_INSTEAD_OF_JPCC is the #ifdef of lines 115, 124
case_JQCC(MI, numOperands, cfg, s) ==
  LET s1 == check_num_operands(MI.opcode, 2, numOperands, s)
  IN IF Failed(s1) THEN s1 ELSE
  IF ~(isExpr(Operands(MI, 0)))
    THEN report_fatal_instr_problem(MI.opcode, "First operand should be an expression.", s1)
    ELSE IF ~(isImm(Operands(MI, 1)))
           THEN report_fatal_instr_problem(MI.opcode, "Second operand should be immediate.", s1)
           ELSE IF cfg.EMIT_JRCC_INSTEAD_OF_JPCC
                  THEN IF 4 <= uint8_t(getImm(Operands(MI, 1)))
                         THEN report_fatal_instr_problem(MI.opcode, "Second operand should be in range 0..3.", s1)
                         ELSE LET s2 == emitByte(BitOr(shl(uint8_t(getImm(Operands(MI, 1))), 3), \h20), s1)
                                  s3 == push_back(MCFixup(s2.CurByte, getExpr(Operands(MI, 0)), "fixup_8_pcrel", MI.loc), s2)
                              IN emitByte(0, s3)
                  ELSE IF 8 <= uint8_t(getImm(Operands(MI, 1)))
                         THEN report_fatal_instr_problem(MI.opcode, "Second operand should be in range 0..7.", s1)
                         ELSE LET s2 == emitByte(BitOr(shl(uint8_t(getImm(Operands(MI, 1))), 3), \hc2), s1)
                                  s3 == push_back(MCFixup(s2.CurByte, getExpr(Operands(MI, 0)), "fixup_16", MI.loc), s2)
                              IN emitBytes(<<0, 0>>, s3)

\* if (Desc.isPseudo()) switch (opcode)
switch_pseudo(MI, numOperands, cfg, s) ==
  CASE MI.opcode = "JQ" -> case_JQ(MI, numOperands, cfg, s)
    [] MI.opcode = "JQCC" -> case_JQCC(MI, numOperands, cfg, s)
    [] OTHER -> report_fatal_error("Not supported pseudo instr: ", s)

\* encodeInstruction with the mode check after the dispatch
encodeInstruction_ModeLast(MI, Desc, cfg, OS_, Fixups_) ==
  LET s == [OS |-> OS_, Fixups |-> Fixups_, CurByte |-> 0,
            fatal |-> FALSE, msg |-> ""]
      numOperands == Desc.NumOperands
      r == IF Desc.isPseudo
             THEN switch_pseudo(MI, numOperands, cfg, s)
             ELSE switch_opcode(MI, numOperands, s)
  IN IF Failed(r) THEN r
     ELSE IF Desc.Mode = "EZ80Mode"
            THEN report_fatal_error("EZ80 machine instructions not supported (yet?)", r)
            ELSE r

\* Z80MCCodeEmitter::encodeInstruction(MI, OS, Fixups, STI); Desc is
\* MCII.get(opcode).  The result is the state of the call when it returns
\* or when report_fatal_error stops it.
\* encodeInstruction with CurByte starting at the length of the byte sink
encodeInstruction_SinkOffset(MI, Desc, cfg, OS_, Fixups_) ==
  LET s == [OS |-> OS_, Fixups |-> Fixups_, CurByte |-> Len(OS_),
            fatal |-> FALSE, msg |-> ""]
      numOperands == Desc.NumOperands
  IN IF Desc.Mode = "EZ80Mode"
       THEN report_fatal_error("EZ80 machine instructions not supported (yet?)", s)
       ELSE IF Desc.isPseudo
              THEN switch_pseudo(MI, numOperands, cfg, s)
              ELSE switch_opcode(MI, numOperands, s)

encodeInstruction(MI, Desc, cfg, OS_, Fixups_) ==
  LET s == [OS |-> OS_, Fixups |-> Fixups_, CurByte |-> 0,
            fatal |-> FALSE, msg |-> ""]
      numOperands == Desc.NumOperands
  IN IF Desc.Mode = "EZ80Mode"
       THEN report_fatal_error("EZ80 machine instructions not supported (yet?)", s)
       ELSE IF Desc.isPseudo
              THEN switch_pseudo(MI, numOperands, cfg, s)
              ELSE switch_opcode(MI, numOperands, s)

\* ------------------------------------------------------------------------
\* The inputs of a call
\* ------------------------------------------------------------------------

\* the 8-bit registers: main registers and index halves
Regs8 == {"A", "B", "C", "D", "E", "H", "L", "IXH", "IXL", "IYH", "IYL"}

IndexHalves == {"IXH", "IXL", "IYH", "IYL"}

\* the 16-bit registers
Regs16 == {"BC", "DE", "HL", "AF", "IX", "IY", "SP"}

Registers == Regs8 \cup Regs16

Reg(r) == [kind |-> "Reg", reg |-> r]

Imm(v) == [kind |-> "Imm", imm |-> v]

Expr(k, name) == [kind |-> "Expr", expr |-> [kind |-> k, sym |-> name]]

\* MCExpr kinds: a bare symbol reference and a compound expression
ExprKinds == {"SymbolRef", "Binary"}

RegOperands == {Reg(r) : r \in Registers}

ExprOperands == {Expr(k, "sym") : k \in ExprKinds}

\* the opcodes named by a case label of switch (opcode)
SwitchOpcodes ==
  {"ADC8ai", "ADC8ao", "ADC8ap", "ADC8ar", "ADD16SP", "ADD16aa",
   "ADD16ao", "ADD8ai", "ADD8ao", "ADD8ap", "ADD8ar", "AND8ai",
   "AND8ao", "AND8ap", "AND8ar", "BIT8bg", "BIT8bo", "BIT8bp", "CALL16",
   "CALL16CC", "CCF", "CP8ai", "CP8ao", "CP8ap", "CP8ar", "CPD16",
   "CPDR16", "CPI16", "CPIR16", "CPL", "DEC16SP", "DEC16r", "DEC8o",
   "DEC8p", "DEC8r", "DI", "EI", "EX16DE", "EX16SP", "EXAF", "EXX",
   "INC16SP", "INC16r", "INC8o", "INC8p", "INC8r", "IND16", "INDR16",
   "INI16", "INIR16", "JP16r", "LD16SP", "LD16am", "LD16ma", "LD16mo",
   "LD16om", "LD16ri", "LD8am", "LD8gg", "LD8xx", "LD8yy", "LD8go",
   "LD8gp", "LD8ma", "LD8og", "LD8oi", "LD8pg", "LD8ri", "LD8pi",
   "LDD16", "LDDR16", "LDI16", "LDIR16", "LEA16ro", "NEG", "NOP",
   "OR8ai", "OR8ao", "OR8ap", "OR8ar", "OUTD16", "OUTDR16", "OUTI16",
   "OUTIR16", "POP16AF", "POP16r", "PUSH16AF", "PUSH16r", "RES8bg",
   "RES8bo", "RES8bp", "RET16", "RET16CC", "RETI16", "RETN16", "RL8o",
   "RL8p", "RL8r", "RLC8o", "RLC8p", "RLC8r", "RR8o", "RR8p", "RR8r",
   "RRC8o", "RRC8p", "RRC8r", "SBC16SP", "SBC16aa", "SBC16ao", "SBC8ai",
   "SBC8ao", "SBC8ap", "SBC8ar", "SCF", "SET8bg", "SET8bo", "SET8bp",
   "SLA8o", "SLA8p", "SLA8r", "SRA8o", "SRA8p", "SRA8r", "SRL8o",
   "SRL8p", "SRL8r", "SUB8ai", "SUB8ao", "SUB8ap", "SUB8ar", "XOR8ai",
   "XOR8ao", "XOR8ap", "XOR8ar", "ADC16SP", "ADC16aa", "ADC16ao",
   "JP16", "JP16CC", "JR", "JRCC", "LD16or", "LD16pr", "LD16ro",
   "LD16rp"}

\* the opcodes named by a case label of the pseudo switch
PseudoOpcodes == {"JQ", "JQCC"}

\* an opcode of the target no case label names: a pseudo and a real one
OtherOpcodes == {"OTHER_PSEUDO", "OTHER_INSTR"}

\* MCII.get(opcode): the descriptor table is generated; it marks the pseudo
\* instructions, and gives the operand count and the mode in TSFlags.
MCII_get(opcode, operands, mode) ==
  [NumOperands |-> Len(operands),
   isPseudo |-> opcode \in PseudoOpcodes \cup {"OTHER_PSEUDO"},
   Mode |-> mode]

MCInst(opcode, operands, loc) ==
  [opcode |-> opcode, Operands |-> operands, loc |-> loc]

\* neither macro is defined anywhere in the sources
DefaultConfig ==
  [EMIT_JR_INSTEAD_OF_JP |-> FALSE, EMIT_JRCC_INSTEAD_OF_JPCC |-> FALSE]

Configs ==
  [EMIT_JR_INSTEAD_OF_JP : BOOLEAN, EMIT_JRCC_INSTEAD_OF_JPCC : BOOLEAN]

\* ------------------------------------------------------------------------
\* State
\* ------------------------------------------------------------------------

VARIABLES
  cfg,       \* the build configuration
  OS,        \* the byte sink
  Fixups,    \* the fixup sink
  phase,     \* "idle", "returned" after a call, "fatal" after report_fatal_error
  msg,       \* the fatal error message
  MI,        \* the instruction of the last call
  Desc,      \* its descriptor
  CurByte,   \* CurByte at the end of the last call
  OS0,       \* the byte sink when the last call began
  Fixups0,   \* the fixup sink when the last call began
  ncalls,    \* the number of calls made
  cpu,       \* the Z80 that runs the emitted bytes
  reloc,     \* the last call into the assembler back end or the object writer
  hist       \* the sinks at the start and the instructions encoded since

vars ==
  <<cfg, OS, Fixups, phase, msg, MI, Desc, CurByte, OS0, Fixups0, ncalls, cpu,
    reloc, hist>>

NoInst == MCInst("", <<>>, "")

CpuOff == [on |-> FALSE]

NoReloc == [fn |-> "none"]

InitWith(c, bytes, fixups) ==
  /\ cfg = c
  /\ OS = bytes
  /\ Fixups = fixups
  /\ phase = "idle"
  /\ msg = ""
  /\ MI = NoInst
  /\ Desc = MCII_get("", <<>>, "Z80Mode")
  /\ CurByte = 0
  /\ OS0 = bytes
  /\ Fixups0 = fixups
  /\ ncalls = 0
  /\ cpu = CpuOff
  /\ reloc = NoReloc
  /\ hist = [OS |-> bytes, Fixups |-> fixups, calls |-> <<>>]

Init == InitWith(DefaultConfig, <<>>, <<>>)

\* one call of encodeInstruction on the sinks as they are
Call(I, D) ==
  /\ phase # "fatal"
  /\ ~cpu.on
  /\ \E r \in {encodeInstruction(I, D, cfg, OS, Fixups)} :
       /\ OS' = r.OS
       /\ Fixups' = r.Fixups
       /\ CurByte' = r.CurByte
       /\ phase' = IF r.fatal THEN "fatal" ELSE "returned"
       /\ msg' = r.msg
  /\ MI' = I
  /\ Desc' = D
  /\ OS0' = OS
  /\ Fixups0' = Fixups
  /\ ncalls' = ncalls + 1
  /\ hist' = [hist EXCEPT !.calls = Append(@, [MI |-> I, Desc |-> D])]
  /\ UNCHANGED <<cfg, cpu, reloc>>

\* ------------------------------------------------------------------------
\* Every opcode on operand lists of every shape
\* ------------------------------------------------------------------------

\* the longest operand list tried
MaxOperands == 4

GeneralImms == {-1, 0, 8}

GeneralOperands ==
  RegOperands \cup {Imm(v) : v \in GeneralImms} \cup ExprOperands

\* second operands of the three-operand lists
SecondOperands ==
  {Reg("IX"), Reg("IY"), Reg("HL"), Reg("A"), Imm(5), Imm(8),
   Expr("SymbolRef", "sym")}

\* third operands: a displacement or immediate, a register, an expression
ThirdOperands ==
  {Imm(5), Imm(-3), Reg("BC"), Reg("A"), Reg("IXL"), Expr("SymbolRef", "sym")}

\* a list longer than any opcode form takes
LongList(n) == [i \in 1..n |-> IF i = 1 THEN Reg("IX") ELSE Imm(i)]

GeneralOperandLists ==
  {<<>>}
  \cup {<<a>> : a \in GeneralOperands}
  \cup {<<a, b>> : a \in GeneralOperands, b \in GeneralOperands}
  \cup {<<a, b, c>> : a \in GeneralOperands, b \in SecondOperands, c \in ThirdOperands}
  \cup {LongList(n) : n \in 4..MaxOperands}

AllOpcodes == SwitchOpcodes \cup PseudoOpcodes \cup OtherOpcodes

CallAny ==
  /\ ncalls = 0
  /\ \E opc \in AllOpcodes, ops \in GeneralOperandLists :
       Call(MCInst(opc, ops, "loc1"), MCII_get(opc, ops, "Z80Mode"))

NextAll == CallAny

SpecAll == Init /\ [][NextAll]_vars

\* ------------------------------------------------------------------------
\* Every opcode in every mode of the descriptor's TSFlags
\* ------------------------------------------------------------------------

Modes == {"AnyMode", "Z80Mode", "EZ80Mode"}

ModeOperandLists ==
  {<<>>, <<Reg("A")>>, <<Reg("HL")>>, <<Imm(3)>>, <<Expr("SymbolRef", "sym")>>,
   <<Expr("SymbolRef", "sym"), Imm(1)>>, <<Reg("BC"), Imm(4660)>>,
   <<Reg("IXH"), Reg("B")>>, <<Reg("IX"), Imm(5), Imm(66)>>}
  \cup {LongList(n) : n \in 4..MaxOperands}

CallInMode ==
  /\ ncalls = 0
  /\ \E opc \in AllOpcodes, ops \in ModeOperandLists, mode \in Modes :
       Call(MCInst(opc, ops, "loc1"), MCII_get(opc, ops, mode))

NextMode == CallInMode

SpecMode == Init /\ [][NextMode]_vars

\* the operand count each implemented opcode form takes: the count its
\* check_num_operands call names, and one operand for the forms that only
\* test "if (!numOperands)" before they read Operands[0]
OperandCount(opc) ==
  CASE opc \in {"CCF", "CPD16", "CPDR16", "CPI16", "CPIR16", "CPL", "DEC16SP",
              "DI", "EI", "EX16DE", "EXAF", "EXX", "INC16SP", "IND16", "INDR16",
              "INI16", "INIR16", "LDD16", "LDDR16", "LDI16", "LDIR16", "NEG",
              "NOP", "OUTD16", "OUTDR16", "OUTI16", "OUTIR16", "POP16AF",
              "PUSH16AF", "RET16", "RETI16", "RETN16", "SBC16SP", "SBC16aa",
              "SCF"} -> 0
    [] opc \in {"ADC8ai", "ADC8ap", "ADC8ar", "ADD8ai", "ADD8ap", "ADD8ar",
              "AND8ai", "AND8ap", "AND8ar", "CALL16", "CP8ai", "CP8ap", "CP8ar",
              "DEC16r", "DEC8p", "DEC8r", "INC16r", "INC8p", "INC8r", "JP16r",
              "LD16SP", "LD8am", "LD8ma", "OR8ai", "OR8ap", "OR8ar", "POP16r",
              "PUSH16r", "RET16CC", "RL8p", "RL8r", "RLC8p", "RLC8r", "RR8p",
              "RR8r", "RRC8p", "RRC8r", "SBC16ao", "SBC8ai", "SBC8ap", "SBC8ar",
              "SLA8p", "SLA8r", "SRA8p", "SRA8r", "SRL8p", "SRL8r", "SUB8ai",
              "SUB8ap", "SUB8ar", "XOR8ai", "XOR8ap", "XOR8ar", "JQ"} -> 1
    [] opc \in {"ADC8ao", "ADD16SP", "ADD16aa", "ADD8ao", "AND8ao", "BIT8bg",
              "BIT8bp", "CALL16CC", "CP8ao", "DEC8o", "EX16SP", "INC8o",
              "LD16am", "LD16ma", "LD16mo", "LD16om", "LD16ri", "LD8gg", "LD8xx",
              "LD8yy", "LD8gp", "LD8pg", "LD8ri", "LD8pi", "OR8ao", "RES8bg",
              "RES8bp", "RL8o", "RLC8o", "RR8o", "RRC8o", "SBC8ao", "SET8bg",
              "SET8bp", "SLA8o", "SRA8o", "SRL8o", "SUB8ao", "XOR8ao", "JQCC"} -> 2
    [] opc \in {"ADD16ao", "BIT8bo", "LD8go", "LD8og", "LD8oi", "LEA16ro",
              "RES8bo", "SET8bo"} -> 3

\* the opcodes the switch names only to reject them
NotImplementedOpcodes ==
  {"ADC16SP", "ADC16aa", "ADC16ao", "JP16", "JP16CC", "JR", "JRCC",
   "LD16or", "LD16pr", "LD16ro", "LD16rp"}

ImplementedOpcodes == (SwitchOpcodes \ NotImplementedOpcodes) \cup PseudoOpcodes

\* ------------------------------------------------------------------------
\* The fixup catalog (Z80FixupKinds.h, Z80AsmBackend::getFixupKindInfo)
\* ------------------------------------------------------------------------

\* enum Fixups, in declaration order
TargetFixupKinds ==
  <<"fixup_8", "fixup_8_dis", "fixup_8_pcrel", "fixup_16", "fixup_24",
    "fixup_32", "fixup_byte0", "fixup_byte1", "fixup_byte2", "fixup_byte3",
    "fixup_word0", "fixup_word1", "fixup_16_be">>

\* NumTargetFixupKinds = LastTargetFixupKind - FirstTargetFixupKind
NumTargetFixupKinds == Len(TargetFixupKinds)

\* kinds of MCFixupKind below FirstTargetFixupKind
GenericFixupKinds ==
  {"FK_NONE", "FK_Data_1", "FK_Data_2", "FK_Data_4", "FK_Data_8",
   "FK_PCRel_1", "FK_PCRel_2", "FK_PCRel_4"}

TargetKinds == {TargetFixupKinds[i] : i \in 1..NumTargetFixupKinds}

AllFixupKinds == TargetKinds \cup GenericFixupKinds

\* MCFixupKindInfo::FKF_IsPCRel
FKF_IsPCRel == 1

\* the table with the rows of fixup_16 and fixup_24 in each other's place
Infos_Swapped ==
  <<[name |-> "fixup_8",       offset |-> 0, bits |-> 8,  flags |-> 0],
    [name |-> "fixup_8_dis",   offset |-> 0, bits |-> 8,  flags |-> 0],
    [name |-> "fixup_8_pcrel", offset |-> 0, bits |-> 8,  flags |-> FKF_IsPCRel],
    [name |-> "fixup_24",      offset |-> 0, bits |-> 24, flags |-> 0],
    [name |-> "fixup_16",      offset |-> 0, bits |-> 16, flags |-> 0],
    [name |-> "fixup_32",      offset |-> 0, bits |-> 32, flags |-> 0],
    [name |-> "fixup_byte0",   offset |-> 0, bits |-> 32, flags |-> 0],
    [name |-> "fixup_byte1",   offset |-> 0, bits |-> 32, flags |-> 0],
    [name |-> "fixup_byte2",   offset |-> 0, bits |-> 32, flags |-> 0],
    [name |-> "fixup_byte3",   offset |-> 0, bits |-> 32, flags |-> 0],
    [name |-> "fixup_word0",   offset |-> 0, bits |-> 32, flags |-> 0],
    [name |-> "fixup_word1",   offset |-> 0, bits |-> 32, flags |-> 0],
    [name |-> "fixup_16_be",   offset |-> 0, bits |-> 16, flags |-> 0]>>

\* the static table Infos of getFixupKindInfo: name, offset, bits, flags
Infos ==
  <<[name |-> "fixup_8",       offset |-> 0, bits |-> 8,  flags |-> 0],
    [name |-> "fixup_8_dis",   offset |-> 0, bits |-> 8,  flags |-> 0],
    [name |-> "fixup_8_pcrel", offset |-> 0, bits |-> 8,  flags |-> FKF_IsPCRel],
    [name |-> "fixup_16",      offset |-> 0, bits |-> 16, flags |-> 0],
    [name |-> "fixup_24",      offset |-> 0, bits |-> 24, flags |-> 0],
    [name |-> "fixup_32",      offset |-> 0, bits |-> 32, flags |-> 0],
    [name |-> "fixup_byte0",   offset |-> 0, bits |-> 32, flags |-> 0],
    [name |-> "fixup_byte1",   offset |-> 0, bits |-> 32, flags |-> 0],
    [name |-> "fixup_byte2",   offset |-> 0, bits |-> 32, flags |-> 0],
    [name |-> "fixup_byte3",   offset |-> 0, bits |-> 32, flags |-> 0],
    [name |-> "fixup_word0",   offset |-> 0, bits |-> 32, flags |-> 0],
    [name |-> "fixup_word1",   offset |-> 0, bits |-> 32, flags |-> 0],
    [name |-> "fixup_16_be",   offset |-> 0, bits |-> 16, flags |-> 0]>>

\* the position of a target kind in enum Fixups: Kind - FirstTargetFixupKind
TargetKindIndex(name) ==
  CHOOSE i \in 1..Len(TargetFixupKinds) : TargetFixupKinds[i] = name

\* MCAsmBackend::getFixupKindInfo, the generic catalog: the entry of a kind
\* below FirstTargetFixupKind
MCAsmBackend_getFixupKindInfo(Kind) ==
  [name |-> Kind, offset |-> 0,
   bits |-> CASE Kind \in {"FK_Data_1", "FK_PCRel_1"} -> 8
              [] Kind \in {"FK_Data_2", "FK_PCRel_2"} -> 16
              [] Kind \in {"FK_Data_4", "FK_PCRel_4"} -> 32
              [] Kind = "FK_Data_8" -> 64
              [] OTHER -> 0,
   flags |-> IF Kind \in {"FK_PCRel_1", "FK_PCRel_2", "FK_PCRel_4"}
               THEN FKF_IsPCRel ELSE 0]

\* getFixupKindInfo: a kind below FirstTargetFixupKind goes to the generic
\* catalog, a target kind to Infos[Kind - FirstTargetFixupKind]; the
\* assertion stops any kind past the table
getFixupKindInfo(Kind) ==
  IF Kind \in GenericFixupKinds
    THEN MCAsmBackend_getFixupKindInfo(Kind)
    ELSE IF Kind \notin TargetKinds
           THEN [name |-> "Invalid kind!", offset |-> 0, bits |-> 0, flags |-> 0]
           ELSE Infos[TargetKindIndex(Kind)]

\* ------------------------------------------------------------------------
\* The opcodes that take an expression, in every build configuration
\* ------------------------------------------------------------------------

ExprOpcodes ==
  {"JQ", "JQCC", "CALL16", "CALL16CC", "LD16ri", "LD16am", "LD16ma",
   "LD16mo", "LD16om", "LD8am", "LD8ma"}

JumpImms == {-1, 0, 1, 3, 4, 7, 8, 256, 4660}

JumpOperands ==
  {Reg(r) : r \in {"A", "BC", "DE", "HL", "IX", "IY", "SP"}}
  \cup {Imm(v) : v \in JumpImms}
  \cup {Expr("SymbolRef", "sym"), Expr("SymbolRef", "other"), Expr("Binary", "sym")}

JumpOperandLists ==
  {<<a>> : a \in JumpOperands} \cup {<<a, b>> : a \in JumpOperands, b \in JumpOperands}

Locs == {"loc1", "loc2"}

\* what the sinks may hold when a call begins
InitialBytes == {<<>>, <<\hff>>}

InitialFixups(bytes) ==
  IF bytes = <<>> THEN <<>>
  ELSE <<MCFixup(0, Expr("SymbolRef", "earlier").expr, "fixup_8", "loc0")>>

InitJump ==
  \E c \in Configs, bytes \in InitialBytes : InitWith(c, bytes, InitialFixups(bytes))

CallExpr ==
  /\ ncalls = 0
  /\ \E opc \in ExprOpcodes, ops \in JumpOperandLists, loc \in Locs :
       Call(MCInst(opc, ops, loc), MCII_get(opc, ops, "Z80Mode"))

NextJump == CallExpr

SpecJump == InitJump /\ [][NextJump]_vars

\* ------------------------------------------------------------------------
\* The opcodes that take a bit index or a condition code
\* ------------------------------------------------------------------------

\* immediates -ImmSpan..ImmSpan, and the same shifted by multiples of 256
ImmSpan == 9

IndexImms ==
  (-ImmSpan..ImmSpan)
  \cup {256 * k + j : k \in {-1, 1, 2, 256}, j \in {0, 3, 7, 8}}
  \cup {255, -128, -129}

BitOpcodes ==
  {"BIT8bg", "BIT8bo", "BIT8bp", "RES8bg", "RES8bo", "RES8bp",
   "SET8bg", "SET8bo", "SET8bp"}

CondOpcodes == {"JQCC", "CALL16CC", "RET16CC"}

\* the operand lists of each form, but for the value of the index
IndexedForms(v) ==
  {<<opc, <<Imm(v), Reg(r)>>>> : opc \in {"BIT8bg", "RES8bg", "SET8bg"}, r \in Regs8}
  \cup {<<opc, <<Imm(v), Reg(r), Imm(5)>>>> :
          opc \in {"BIT8bo", "RES8bo", "SET8bo"}, r \in {"IX", "IY"}}
  \cup {<<opc, <<Imm(v), Reg(r)>>>> :
          opc \in {"BIT8bp", "RES8bp", "SET8bp"}, r \in {"HL"}}
  \cup {<<"JQCC", <<Expr("SymbolRef", "sym"), Imm(v)>>>>,
        <<"CALL16CC", <<Expr("SymbolRef", "sym"), Imm(v)>>>>,
        <<"CALL16CC", <<Imm(4660), Imm(v)>>>>,
        <<"RET16CC", <<Imm(v)>>>>}

\* the bit index or condition code of the last call
IndexValue ==
  IF MI.opcode \in BitOpcodes \cup {"RET16CC"}
    THEN getImm(Operands(MI, 0))
    ELSE getImm(Operands(MI, 1))

CallIndexed ==
  /\ ncalls = 0
  /\ \E v \in IndexImms : \E f \in IndexedForms(v) :
       Call(MCInst(f[1], f[2], "loc1"), MCII_get(f[1], f[2], "Z80Mode"))

NextIndexed == CallIndexed

SpecIndexed == Init /\ [][NextIndexed]_vars

\* ------------------------------------------------------------------------
\* A Z80 that runs the bytes of one instruction: the registers, the carry
\* flag, the stack pointer and the memory the instruction touches.  It
\* decodes the instructions the expansions are commented with (PUSH HL,
\* PUSH IX, POP HL, LD H, r, LD D, (HL), LD (IX+d), H, INC H, RLC H, ...)
\* and halts on any other byte.
\* ------------------------------------------------------------------------

\* the register table of the one-byte encodings; entry 6 is (HL)
RTable == <<"B", "C", "D", "E", "H", "L", "(HL)", "A">>

RegOrder == <<"A", "B", "C", "D", "E", "H", "L", "IXH", "IXL", "IYH", "IYL">>

RegIndex(r) == CHOOSE i \in 1..Len(RegOrder) : RegOrder[i] = r

\* the initial valuations tried
NumValuations == 2

\* valuation k gives every register a value of its own
RegValue(k, r) == (17 * k + 23 * RegIndex(r)) % 256

\* the stack pointer of valuation k: mid memory, then wrapping below 0
StackPointer(k) == IF k = 1 THEN 32768 ELSE (k - 1) % 65536

Carry(k) == k % 2

\* what memory holds where the program has not written
Background(a) == (7 * a + 3) % 256

rd(mem, a) == IF a \in DOMAIN mem THEN mem[a] ELSE Background(a)

wr(mem, a, v) ==
  [x \in DOMAIN mem \cup {a} |-> IF x = a THEN v ELSE mem[x]]

Bit(v, b) == (v \div (2 ^ b)) % 2

\* the register pair a PUSH or POP moves, by the prefix and the opcode
PairOf(prefix, b) ==
  IF prefix = \hdd THEN <<"IXH", "IXL">>
  ELSE IF prefix = \hfd THEN <<"IYH", "IYL">>
  ELSE IF b \in {\hc5, \hc1} THEN <<"B", "C">>
  ELSE IF b \in {\hd5, \hd1} THEN <<"D", "E">>
  ELSE <<"H", "L">>

\* PUSH qq: (SP-1) <- high, (SP-2) <- low, SP <- SP-2
Push16(c, pair, len) ==
  LET a1 == (c.sp + 65535) % 65536
      a2 == (c.sp + 65534) % 65536
  IN [c EXCEPT !.mem = wr(wr(c.mem, a1, c.r[pair[1]]), a2, c.r[pair[2]]),
               !.sp = a2,
               !.pc = c.pc + len]

\* POP qq: low <- (SP), high <- (SP+1), SP <- SP+2
Pop16(c, pair, len) ==
  LET a1 == (c.sp + 1) % 65536
  IN [c EXCEPT !.r = [c.r EXCEPT ![pair[2]] = rd(c.mem, c.sp),
                                 ![pair[1]] = rd(c.mem, a1)],
               !.sp = (c.sp + 2) % 65536,
               !.pc = c.pc + len]

\* the rotates and shifts of the CB page: <<result, carry out>>
Rot(kind, v, cf) ==
  CASE kind = 0 -> <<((2 * v) % 256) + (v \div 128), v \div 128>>
    [] kind = 1 -> <<(v \div 2) + 128 * (v % 2), v % 2>>
    [] kind = 2 -> <<((2 * v) % 256) + cf, v \div 128>>
    [] kind = 3 -> <<(v \div 2) + 128 * cf, v % 2>>
    [] kind = 4 -> <<(2 * v) % 256, v \div 128>>
    [] kind = 5 -> <<(v \div 2) + 128 * (v \div 128), v % 2>>
    [] OTHER -> <<v \div 2, v % 2>>

\* the eight operations on the accumulator: <<result, carry out>>
Alu(n, a, v, cf) ==
  CASE n = 0 -> <<(a + v) % 256, (a + v) \div 256>>
    [] n = 1 -> <<(a + v + cf) % 256, (a + v + cf) \div 256>>
    [] n = 2 -> <<(a - v) % 256, IF a < v THEN 1 ELSE 0>>
    [] n = 3 -> <<(a - v - cf) % 256, IF a < v + cf THEN 1 ELSE 0>>
    [] n = 4 -> <<BitAnd(a, v), 0>>
    [] n = 5 -> <<a + v - 2 * BitAnd(a, v), 0>>
    [] n = 6 -> <<BitOr(a, v), 0>>
    [] OTHER -> <<a, IF a < v THEN 1 ELSE 0>>

Halt(c) == [c EXCEPT !.halt = TRUE]

SetReg(c, r, v, len) ==
  [c EXCEPT !.r = [c.r EXCEPT ![r] = v], !.pc = c.pc + len]

\* an instruction of the CB page on a register
ExecuteCB(c, b2) ==
  LET r == RTable[(b2 % 8) + 1]
      n == (b2 \div 8) % 8
      v == c.r[r]
  IN IF r = "(HL)" THEN Halt(c)
     ELSE CASE b2 \div 64 = 0 ->
                 IF n = 6 THEN Halt(c)
                 ELSE LET res == Rot(n, v, c.cf)
                      IN [SetReg(c, r, res[1], 2) EXCEPT !.cf = res[2]]
            [] b2 \div 64 = 1 -> [c EXCEPT !.pc = c.pc + 2]
            [] b2 \div 64 = 2 -> SetReg(c, r, v - Bit(v, n) * (2 ^ n), 2)
            [] OTHER -> SetReg(c, r, v + (1 - Bit(v, n)) * (2 ^ n), 2)

\* PUSH AF: the accumulator, then the flag byte (carry is bit 0)
PushAF(c) ==
  LET a1 == (c.sp + 65535) % 65536
      a2 == (c.sp + 65534) % 65536
  IN [c EXCEPT !.mem = wr(wr(c.mem, a1, c.r["A"]), a2, 2 * c.fx + c.cf),
               !.sp = a2,
               !.pc = c.pc + 1]

\* POP AF
PopAF(c) ==
  LET lo == rd(c.mem, c.sp)
      hi == rd(c.mem, (c.sp + 1) % 65536)
  IN [c EXCEPT !.r = [c.r EXCEPT !["A"] = hi],
               !.fx = lo \div 2,
               !.cf = lo % 2,
               !.sp = (c.sp + 2) % 65536,
               !.pc = c.pc + 1]

\* ADD IX|IY, BC: the 16-bit sum; carry from bit 15, half carry from bit
\* 11, N reset, bits 3 and 5 of the flags from the high byte of the sum
AddIndexBC(c, pair) ==
  LET a == 256 * c.r[pair[1]] + c.r[pair[2]]
      b == 256 * c.r["B"] + c.r["C"]
      sum == (a + b) % 65536
      hi == sum \div 256
      h == ((a % 4096) + (b % 4096)) \div 4096
      fx == 2 * Bit(c.fx, 1) + 4 * Bit(hi, 3) + 8 * h + 16 * Bit(hi, 5)
              + 32 * Bit(c.fx, 5) + 64 * Bit(c.fx, 6)
  IN [c EXCEPT !.r = [c.r EXCEPT ![pair[1]] = hi, ![pair[2]] = sum % 256],
               !.fx = fx,
               !.cf = (a + b) \div 65536,
               !.pc = c.pc + 2]

\* one instruction at pc
Execute(c) ==
  LET left == Len(c.code) - c.pc
      b == c.code[c.pc + 1]
      b2 == c.code[c.pc + 2]
      d == RTable[((b \div 8) % 8) + 1]
      s == RTable[(b % 8) + 1]
      d2 == RTable[((b2 \div 8) % 8) + 1]
      s2 == RTable[(b2 % 8) + 1]
      hl == 256 * c.r["H"] + c.r["L"]
      \* (IX+d), (IY+d): the displacement byte is signed
      b3 == c.code[c.pc + 3]
      index == 256 * c.r[PairOf(b, 0)[1]] + c.r[PairOf(b, 0)[2]]
      at == (index + (IF b3 > 127 THEN b3 - 256 ELSE b3)) % 65536
  IN CASE b \in {\hdd, \hfd} ->
            IF left < 2 THEN Halt(c)
            ELSE IF b2 = \he5 THEN Push16(c, PairOf(b, b2), 2)
            ELSE IF b2 = \he1 THEN Pop16(c, PairOf(b, b2), 2)
            ELSE IF b2 = 9 THEN AddIndexBC(c, PairOf(b, b2))
            ELSE IF b2 \in 64..127 /\ d2 # s2 /\ s2 = "(HL)"
              THEN IF left < 3 THEN Halt(c)
                   ELSE SetReg(c, d2, rd(c.mem, at), 3)
            ELSE IF b2 \in 64..127 /\ d2 # s2 /\ d2 = "(HL)"
              THEN IF left < 3 THEN Halt(c)
                   ELSE [c EXCEPT !.mem = wr(c.mem, at, c.r[s2]),
                                  !.pc = c.pc + 3]
            ELSE Halt(c)
       [] b \in {\hc5, \hd5, \he5} -> Push16(c, PairOf(0, b), 1)
       [] b \in {\hc1, \hd1, \he1} -> Pop16(c, PairOf(0, b), 1)
       [] b = \hf5 -> PushAF(c)
       [] b = \hf1 -> PopAF(c)
       [] b = \hcb -> IF left < 2 THEN Halt(c) ELSE ExecuteCB(c, b2)
       [] b \in 64..127 ->
            IF d = "(HL)" /\ s = "(HL)" THEN Halt(c)
            ELSE IF s = "(HL)" THEN SetReg(c, d, rd(c.mem, hl), 1)
            ELSE IF d = "(HL)"
              THEN [c EXCEPT !.mem = wr(c.mem, hl, c.r[s]), !.pc = c.pc + 1]
            ELSE SetReg(c, d, c.r[s], 1)
       [] b \in 128..191 ->
            IF s = "(HL)" THEN Halt(c)
            ELSE LET res == Alu((b \div 8) % 8, c.r["A"], c.r[s], c.cf)
                 IN [SetReg(c, "A", res[1], 1) EXCEPT !.cf = res[2]]
       [] b \in 0..63 /\ b % 8 = 4 /\ d # "(HL)" ->
            SetReg(c, d, (c.r[d] + 1) % 256, 1)
       [] b \in 0..63 /\ b % 8 = 5 /\ d # "(HL)" ->
            SetReg(c, d, (c.r[d] + 255) % 256, 1)
       [] b \in 0..63 /\ b % 8 = 6 /\ d # "(HL)" ->
            IF left < 2 THEN Halt(c) ELSE SetReg(c, d, b2, 2)
       [] OTHER -> Halt(c)

\* the Z80 loaded with the bytes of the last call, in valuation k
Loaded(k, bytes) ==
  [on |-> TRUE, k |-> k, code |-> bytes, pc |-> 0, halt |-> FALSE,
   r |-> [q \in Regs8 |-> RegValue(k, q)],
   cf |-> Carry(k),
   sp |-> StackPointer(k),
   mem |-> [a \in {} |-> 0]]

\* ------------------------------------------------------------------------
\* The forms that take an 8-bit register, then run on the Z80
\* ------------------------------------------------------------------------

LoadForms == {"LD8gg", "LD8xx", "LD8yy"}

UnaryWriteForms ==
  {"INC8r", "DEC8r", "RLC8r", "RL8r", "RRC8r", "RR8r", "SLA8r", "SRA8r",
   "SRL8r"}

BitWriteForms == {"RES8bg", "SET8bg"}

ReadForms ==
  {"ADD8ar", "ADC8ar", "SUB8ar", "SBC8ar", "AND8ar", "XOR8ar", "OR8ar",
   "CP8ar"}

ExecImms == {0, 90, 255}

ExecBits == {0, 3, 7}

ExecInstructions ==
  {MCInst(o, <<Reg(d), Reg(s)>>, "loc1") :
     o \in LoadForms, d \in Regs8, s \in Regs8}
  \cup {MCInst("LD8ri", <<Reg(d), Imm(v)>>, "loc1") :
          d \in Regs8, v \in ExecImms}
  \cup {MCInst(o, <<Reg(d)>>, "loc1") :
          o \in UnaryWriteForms \cup ReadForms, d \in Regs8}
  \cup {MCInst(o, <<Imm(b), Reg(d)>>, "loc1") :
          o \in BitWriteForms \cup {"BIT8bg"}, b \in ExecBits, d \in Regs8}

CallExec ==
  /\ ncalls = 0
  /\ \E I \in ExecInstructions :
       Call(I, MCII_get(I.opcode, I.Operands, "Z80Mode"))

\* load the bytes the call emitted
Boot ==
  /\ phase = "returned"
  /\ ~cpu.on
  /\ \E k \in 1..NumValuations :
       cpu' = Loaded(k, SubSeq(OS, Len(OS0) + 1, Len(OS)))
  /\ UNCHANGED <<cfg, OS, Fixups, phase, msg, MI, Desc, CurByte, OS0,
                 Fixups0, ncalls, reloc, hist>>

Step ==
  /\ cpu.on
  /\ ~cpu.halt
  /\ cpu.pc < Len(cpu.code)
  /\ cpu' = Execute(cpu)
  /\ UNCHANGED <<cfg, OS, Fixups, phase, msg, MI, Desc, CurByte, OS0,
                 Fixups0, ncalls, reloc, hist>>

NextExec == CallExec \/ Boot \/ Step

SpecExec == Init /\ [][NextExec]_vars

\* ------------------------------------------------------------------------
\* The opcodes with a 16-bit immediate field, on immediates of every size
\* ------------------------------------------------------------------------

Imm16Opcodes ==
  {"CALL16", "CALL16CC", "LD16ri", "LD16am", "LD16ma", "LD16mo", "LD16om",
   "LD8am", "LD8ma"}

\* the operand index of the 16-bit field of each form
AddressIndex(opc) ==
  IF opc \in {"LD16ri", "LD16am", "LD16om"} THEN 1 ELSE 0

\* 16-bit values and int64_t values beyond them
WideImms ==
  {0, 1, 255, 256, 4660, 43981, 65535, 65536, 70196, -1, -256, -32768,
   -65536, -43981}

\* the other operand of the two-operand forms
AddressPartners ==
  {Reg(r) : r \in Regs16 \cup {"A"}} \cup {Imm(v) : v \in {0, 7, 8}}

Imm16OperandLists(opc) ==
  LET fields == {Imm(v) : v \in WideImms} \cup {Expr("SymbolRef", "sym"), Reg("HL")}
  IN IF opc \in {"CALL16", "LD8am", "LD8ma"}
       THEN {<<a>> : a \in fields}
       ELSE IF AddressIndex(opc) = 0
              THEN {<<a, p>> : a \in fields, p \in AddressPartners}
              ELSE {<<p, a>> : a \in fields, p \in AddressPartners}

CallImm16 ==
  /\ ncalls = 0
  /\ \E opc \in Imm16Opcodes : \E ops \in Imm16OperandLists(opc) :
       Call(MCInst(opc, ops, "loc1"), MCII_get(opc, ops, "Z80Mode"))

NextImm16 == CallImm16

SpecImm16 == Init /\ [][NextImm16]_vars

\* ------------------------------------------------------------------------
\* The accumulator operations and the bit operations, in their register,
\* (HL) and indexed forms
\* ------------------------------------------------------------------------

\* the eight families in the order of their base bytes 0x80, 0x88, ..., 0xB8
AluFamilies ==
  << [ar |-> "ADD8ar", ap |-> "ADD8ap", ao |-> "ADD8ao"],
     [ar |-> "ADC8ar", ap |-> "ADC8ap", ao |-> "ADC8ao"],
     [ar |-> "SUB8ar", ap |-> "SUB8ap", ao |-> "SUB8ao"],
     [ar |-> "SBC8ar", ap |-> "SBC8ap", ao |-> "SBC8ao"],
     [ar |-> "AND8ar", ap |-> "AND8ap", ao |-> "AND8ao"],
     [ar |-> "XOR8ar", ap |-> "XOR8ap", ao |-> "XOR8ao"],
     [ar |-> "OR8ar", ap |-> "OR8ap", ao |-> "OR8ao"],
     [ar |-> "CP8ar", ap |-> "CP8ap", ao |-> "CP8ao"] >>

\* BIT, RES, SET in the order of their base bytes 0x40, 0x80, 0xC0
BitFamilies ==
  << [bg |-> "BIT8bg", bp |-> "BIT8bp", bo |-> "BIT8bo"],
     [bg |-> "RES8bg", bp |-> "RES8bp", bo |-> "RES8bo"],
     [bg |-> "SET8bg", bp |-> "SET8bp", bo |-> "SET8bo"] >>

\* displacement bytes, and immediates beyond a byte
Displacements == {0, 1, 7, 127, 128, 255, -1, -128, 261}

BitIndexes == 0..7

OperateInstructions ==
  {MCInst(AluFamilies[n].ar, <<Reg(r)>>, "loc1") :
     n \in 1..Len(AluFamilies), r \in Registers}
  \cup {MCInst(AluFamilies[n].ap, <<Reg(r)>>, "loc1") :
          n \in 1..Len(AluFamilies), r \in Registers}
  \cup {MCInst(AluFamilies[n].ao, <<Reg(r), Imm(d)>>, "loc1") :
          n \in 1..Len(AluFamilies), r \in Registers, d \in Displacements}
  \cup {MCInst(BitFamilies[n].bg, <<Imm(b), Reg(r)>>, "loc1") :
          n \in 1..Len(BitFamilies), b \in BitIndexes, r \in Registers}
  \cup {MCInst(BitFamilies[n].bp, <<Imm(b), Reg(r)>>, "loc1") :
          n \in 1..Len(BitFamilies), b \in BitIndexes, r \in Registers}
  \cup {MCInst(BitFamilies[n].bo, <<Imm(b), Reg(r), Imm(d)>>, "loc1") :
          n \in 1..Len(BitFamilies), b \in BitIndexes, r \in Regs16,
          d \in Displacements}

CallOperate ==
  /\ ncalls = 0
  /\ \E I \in OperateInstructions :
       Call(I, MCII_get(I.opcode, I.Operands, "Z80Mode"))

NextOperate == CallOperate

SpecOperate == Init /\ [][NextOperate]_vars

\* ------------------------------------------------------------------------
\* LEA16ro, then run on the Z80
\* ------------------------------------------------------------------------

\* the two halves of a register pair, high first
Halves(rr) ==
  CASE rr = "BC" -> <<"B", "C">>
    [] rr = "DE" -> <<"D", "E">>
    [] rr = "HL" -> <<"H", "L">>
    [] rr = "IX" -> <<"IXH", "IXL">>
    [] rr = "IY" -> <<"IYH", "IYL">>

LeaDisplacements == {0, 1, 127, 128, 255}

\* high bytes of the index registers: mid range, and at the top of memory
IndexHighs == {18, 255}

\* the flag bits above carry, in valuation k
FlagValue(k) == (41 * k + 5) % 128

LeaInstructions ==
  {MCInst("LEA16ro", <<Reg(d), Reg(b), Imm(v)>>, "loc1") :
     d \in Regs16, b \in {"IX", "IY", "HL"}, v \in LeaDisplacements}

\* the Z80 of valuation k with both index registers at the high byte hi;
\* r0 keeps the registers as they were loaded
LeaLoaded(k, bytes, hi) ==
  LET r == [q \in Regs8 |-> IF q \in {"IXH", "IYH"} THEN hi ELSE RegValue(k, q)]
  IN [on |-> TRUE, k |-> k, code |-> bytes, pc |-> 0, halt |-> FALSE,
      r |-> r, r0 |-> r,
      cf |-> Carry(k), fx |-> FlagValue(k),
      sp |-> StackPointer(k),
      mem |-> [a \in {} |-> 0]]

CallLea ==
  /\ ncalls = 0
  /\ \E I \in LeaInstructions :
       Call(I, MCII_get(I.opcode, I.Operands, "Z80Mode"))

BootLea ==
  /\ phase = "returned"
  /\ ~cpu.on
  /\ \E k \in 1..NumValuations, hi \in IndexHighs :
       cpu' = LeaLoaded(k, SubSeq(OS, Len(OS0) + 1, Len(OS)), hi)
  /\ UNCHANGED <<cfg, OS, Fixups, phase, msg, MI, Desc, CurByte, OS0,
                 Fixups0, ncalls, reloc, hist>>

NextLea == CallLea \/ BootLea \/ Step

SpecLea == Init /\ [][NextLea]_vars

\* ------------------------------------------------------------------------
\* The assembler back end and the ELF object writer
\* ------------------------------------------------------------------------

\* an MCValue: a symbol plus a constant
MCValue(SymA, Cst) == [SymA |-> SymA, Cst |-> Cst]

\* Z80AsmBackend::shouldForceRelocation with one kind left out of the switch
shouldForceRelocation_NoDisplacement(Asm, Fixup, Target) ==
  CASE Fixup.kind \in {"fixup_8_pcrel", "fixup_16"} -> TRUE
    [] OTHER -> FALSE

\* Z80AsmBackend::shouldForceRelocation
shouldForceRelocation(Asm, Fixup, Target) ==
  CASE Fixup.kind \in {"fixup_8_dis", "fixup_8_pcrel", "fixup_16"} -> TRUE
    [] OTHER -> FALSE

\* the relocation codes of ELF::R_Z80_* that getRelocType names
RelocationCodes ==
  {"R_Z80_8", "R_Z80_8_DIS", "R_Z80_8_PCREL", "R_Z80_16", "R_Z80_24",
   "R_Z80_32", "R_Z80_BYTE0", "R_Z80_BYTE1", "R_Z80_BYTE2", "R_Z80_BYTE3",
   "R_Z80_WORD0", "R_Z80_WORD1", "R_Z80_16_BE"}

\* a call that returned a relocation code
Return(type) == [fatal |-> FALSE, msg |-> "", type |-> type]

\* a call that ended the process
Abort(message) == [fatal |-> TRUE, msg |-> message, type |-> ""]

\* assert(e) in a build with assertions: the process aborts when e is false
assert(e, text, then) ==
  IF e THEN then ELSE Abort("Assertion `" \o text \o "' failed.")

\* llvm_unreachable(msg): the process aborts with the message
llvm_unreachable(message) == Abort(message)

\* Twine(a, b).str()
Twine(a, b) == a \o b

\* dyn_cast<MCSymbolRefExpr>(Fixup.getValue()): the value itself or null
SymRefOf(Fixup) ==
  IF Fixup.value.kind = "SymbolRef" THEN Fixup.value ELSE [kind |-> "null"]

\* Z80ELFObjectWriter::getRelocType with FK_Data_2 on the one-byte case labels
getRelocType_DataTwoAsOne(Ctx, Target, Fixup, IsPCRel) ==
  LET SymRef == SymRefOf(Fixup)
      k == Fixup.kind
  IN CASE k \in {"FK_Data_1", "FK_Data_2", "fixup_8"} -> Return("R_Z80_8")
       [] k = "fixup_8_dis" -> Return("R_Z80_8_DIS")
       [] k = "fixup_8_pcrel" -> assert(IsPCRel, "IsPCRel", Return("R_Z80_8_PCREL"))
       [] k = "fixup_16" -> Return("R_Z80_16")
       [] k = "fixup_24" -> Return("R_Z80_24")
       [] k \in {"FK_Data_4", "fixup_32"} -> Return("R_Z80_32")
       [] k = "fixup_byte0" -> Return("R_Z80_BYTE0")
       [] k = "fixup_byte1" -> Return("R_Z80_BYTE1")
       [] k = "fixup_byte2" -> Return("R_Z80_BYTE2")
       [] k = "fixup_byte3" -> Return("R_Z80_BYTE3")
       [] k = "fixup_word0" -> Return("R_Z80_WORD0")
       [] k = "fixup_word1" -> Return("R_Z80_WORD1")
       [] k = "fixup_16_be" -> Return("R_Z80_16_BE")
       [] OTHER ->
            llvm_unreachable(
              Twine("Invalid fixup kind! ",
                    IF SymRef.kind # "null" THEN SymRef.sym
                    ELSE "(not even a symref!)"))

\* Z80ELFObjectWriter::getRelocType
getRelocType(Ctx, Target, Fixup, IsPCRel) ==
  LET SymRef == SymRefOf(Fixup)
      k == Fixup.kind
  IN CASE k \in {"FK_Data_1", "fixup_8"} -> Return("R_Z80_8")
       [] k = "fixup_8_dis" -> Return("R_Z80_8_DIS")
       [] k = "fixup_8_pcrel" -> assert(IsPCRel, "IsPCRel", Return("R_Z80_8_PCREL"))
       [] k \in {"FK_Data_2", "fixup_16"} -> Return("R_Z80_16")
       [] k = "fixup_24" -> Return("R_Z80_24")
       [] k \in {"FK_Data_4", "fixup_32"} -> Return("R_Z80_32")
       [] k = "fixup_byte0" -> Return("R_Z80_BYTE0")
       [] k = "fixup_byte1" -> Return("R_Z80_BYTE1")
       [] k = "fixup_byte2" -> Return("R_Z80_BYTE2")
       [] k = "fixup_byte3" -> Return("R_Z80_BYTE3")
       [] k = "fixup_word0" -> Return("R_Z80_WORD0")
       [] k = "fixup_word1" -> Return("R_Z80_WORD1")
       [] k = "fixup_16_be" -> Return("R_Z80_16_BE")
       [] OTHER ->
            llvm_unreachable(
              Twine("Invalid fixup kind! ",
                    IF SymRef.kind # "null" THEN SymRef.sym
                    ELSE "(not even a symref!)"))

\* ------------------------------------------------------------------------
\* Encoder calls followed by calls into the back end
\* ------------------------------------------------------------------------

\* the values a fixup handed to the back end refers to
QueryValues == {Expr(k, "sym").expr : k \in ExprKinds}

\* fixup records of every kind, as data directives and the encoder make them
QueryFixups ==
  {MCFixup(1, v, k, "loc1") : v \in QueryValues, k \in AllFixupKinds}

\* the fixup records a call can be about: those in the sink and those above
KnownFixups == {Fixups[i] : i \in 1..Len(Fixups)} \cup QueryFixups

TargetValues == {MCValue("sym", 0), MCValue("", 5)}

\* the assembler as the back end sees it: the sinks filled so far
AsmState == [OS |-> OS, Fixups |-> Fixups]

EmitOperandLists ==
  {<<Expr("SymbolRef", "sym")>>, <<Expr("Binary", "sym")>>, <<Imm(4660)>>,
   <<Expr("SymbolRef", "sym"), Imm(1)>>, <<Imm(1), Expr("SymbolRef", "sym")>>,
   <<Reg("HL"), Expr("SymbolRef", "sym")>>, <<Expr("SymbolRef", "sym"), Reg("HL")>>,
   <<Reg("IX"), Expr("Binary", "sym")>>, <<Expr("Binary", "sym"), Reg("IX")>>,
   <<Reg("A"), Expr("SymbolRef", "sym")>>, <<Expr("SymbolRef", "sym"), Reg("A")>>}

InitReloc == \E c \in Configs : InitWith(c, <<>>, <<>>)

CallEmit ==
  /\ ncalls = 0
  /\ \E opc \in ExprOpcodes, ops \in EmitOperandLists :
       Call(MCInst(opc, ops, "loc1"), MCII_get(opc, ops, "Z80Mode"))

\* one call of shouldForceRelocation
ForceRelocation ==
  /\ phase # "fatal"
  /\ reloc = NoReloc
  /\ \E Fixup \in KnownFixups, Target \in TargetValues :
       reloc' = [fn |-> "shouldForceRelocation", Asm |-> AsmState,
                 Fixup |-> Fixup, Target |-> Target,
                 result |-> shouldForceRelocation(AsmState, Fixup, Target)]
  /\ UNCHANGED <<cfg, OS, Fixups, phase, msg, MI, Desc, CurByte, OS0,
                 Fixups0, ncalls, cpu, hist>>

\* one call of getRelocType; a failed assertion or llvm_unreachable ends the
\* process
RelocType ==
  /\ phase # "fatal"
  /\ reloc = NoReloc
  /\ \E Fixup \in KnownFixups, Target \in TargetValues, IsPCRel \in BOOLEAN :
       \E r \in {getRelocType(AsmState, Target, Fixup, IsPCRel)} :
         /\ reloc' = [fn |-> "getRelocType", Asm |-> AsmState,
                      Fixup |-> Fixup, Target |-> Target,
                      IsPCRel |-> IsPCRel, result |-> r]
         /\ phase' = IF r.fatal THEN "fatal" ELSE phase
  /\ UNCHANGED <<cfg, OS, Fixups, msg, MI, Desc, CurByte, OS0, Fixups0,
                 ncalls, cpu, hist>>

\* one call of getFixupKindInfo, on a kind below LastTargetFixupKind
FixupKindInfo ==
  /\ phase # "fatal"
  /\ reloc = NoReloc
  /\ \E Fixup \in KnownFixups :
       reloc' = [fn |-> "getFixupKindInfo", Kind |-> Fixup.kind,
                 result |-> getFixupKindInfo(Fixup.kind)]
  /\ UNCHANGED <<cfg, OS, Fixups, phase, msg, MI, Desc, CurByte, OS0,
                 Fixups0, ncalls, cpu, hist>>

NextReloc == CallEmit \/ ForceRelocation \/ RelocType \/ FixupKindInfo

SpecReloc == InitReloc /\ [][NextReloc]_vars

\* ------------------------------------------------------------------------
\* Several calls in a row on the same pair of sinks
\* ------------------------------------------------------------------------

\* the most calls made on one pair of sinks
MaxCalls == 3

SeqInstructions ==
  {MCInst("NOP", <<>>, "loc1"),
   MCInst("LD8ri", <<Reg("A"), Imm(66)>>, "loc1"),
   MCInst("LD16ri", <<Reg("HL"), Expr("SymbolRef", "sym")>>, "loc1"),
   MCInst("LD16mo", <<Expr("SymbolRef", "other"), Reg("BC")>>, "loc2"),
   MCInst("JQ", <<Expr("SymbolRef", "sym")>>, "loc2"),
   MCInst("CALL16", <<Expr("Binary", "sym")>>, "loc1"),
   MCInst("LD8gg", <<Reg("IXH"), Reg("B")>>, "loc1"),
   MCInst("CALL16", <<Reg("HL")>>, "loc1")}

CallSeq ==
  /\ ncalls < MaxCalls
  /\ \E I \in SeqInstructions :
       Call(I, MCII_get(I.opcode, I.Operands, "Z80Mode"))

NextSeq == CallSeq

SpecSeq == InitJump /\ [][NextSeq]_vars

\* ------------------------------------------------------------------------
\* The 16-bit additions on operands of every kind
\* ------------------------------------------------------------------------

Add16Opcodes == {"ADD16aa", "ADD16ao"}

Add16OperandLists ==
  {<<a>> : a \in GeneralOperands}
  \cup {<<a, b>> : a \in GeneralOperands, b \in GeneralOperands}
  \cup {<<a, b, c>> : a \in GeneralOperands, b \in GeneralOperands,
                      c \in GeneralOperands}

CallAdd16 ==
  /\ ncalls = 0
  /\ \E opc \in Add16Opcodes, ops \in Add16OperandLists :
       Call(MCInst(opc, ops, "loc1"), MCII_get(opc, ops, "Z80Mode"))

NextAdd16 == CallAdd16

SpecAdd16 == Init /\ [][NextAdd16]_vars

\* ------------------------------------------------------------------------
\* The opcodes with an 8-bit immediate or displacement operand
\* ------------------------------------------------------------------------

AluImmOpcodes ==
  {"ADD8ai", "ADC8ai", "SUB8ai", "SBC8ai", "AND8ai", "XOR8ai", "OR8ai", "CP8ai"}

AluIndexedOpcodes == {AluFamilies[n].ao : n \in 1..Len(AluFamilies)}

StepIndexedOpcodes == {"INC8o", "DEC8o"}

RotateIndexedOpcodes ==
  {"RLC8o", "RRC8o", "RL8o", "RR8o", "SLA8o", "SRA8o", "SRL8o"}

BitIndexedOpcodes == {BitFamilies[n].bo : n \in 1..Len(BitFamilies)}

\* immediates inside and outside the range of a byte
ByteImms ==
  {1, 5, 127, 128, 255, 256, 261, 4660, 2147483647,
   -1, -3, -128, -129, -251, -2147483647}

\* the second immediate of LD8oi
StoredImms == {66, 153, 322, -190}

PointerRegs == {"HL", "IX", "IY"}

ByteInstructions ==
  {MCInst(opc, <<Imm(v)>>, "loc1") : opc \in AluImmOpcodes, v \in ByteImms}
  \cup {MCInst(opc, <<Reg(r), Imm(v)>>, "loc1") :
          opc \in AluIndexedOpcodes \cup StepIndexedOpcodes
                  \cup RotateIndexedOpcodes \cup {"LD8pi"},
          r \in PointerRegs, v \in ByteImms}
  \cup {MCInst("LD8ri", <<Reg(r), Imm(v)>>, "loc1") :
          r \in Regs8, v \in ByteImms}
  \cup {MCInst("LD8oi", <<Reg(r), Imm(d), Imm(v)>>, "loc1") :
          r \in PointerRegs, d \in ByteImms, v \in StoredImms}
  \cup {MCInst("LD8go", <<Reg(g), Reg(r), Imm(d)>>, "loc1") :
          g \in Regs8, r \in PointerRegs, d \in ByteImms}
  \cup {MCInst("LD8og", <<Reg(r), Imm(d), Reg(g)>>, "loc1") :
          g \in Regs8, r \in PointerRegs, d \in ByteImms}
  \cup {MCInst(opc, <<Imm(b), Reg(r), Imm(d)>>, "loc1") :
          opc \in BitIndexedOpcodes, b \in {0, 3, 7}, r \in PointerRegs,
          d \in ByteImms}
  \cup {MCInst("LEA16ro", <<Reg(rr), Reg(r), Imm(d)>>, "loc1") :
          rr \in {"BC", "DE", "HL", "IX", "IY"}, r \in PointerRegs,
          d \in ByteImms}

CallByte ==
  /\ ncalls = 0
  /\ \E I \in ByteInstructions :
       Call(I, MCII_get(I.opcode, I.Operands, "Z80Mode"))

NextByte == CallByte

SpecByte == Init /\ [][NextByte]_vars

\* ------------------------------------------------------------------------
\* The loads and stores between memory and an index half, then run on the
\* Z80
\* ------------------------------------------------------------------------

MemDisplacements == {0, 5, 127, -128, -1}

MemInstructions ==
  {MCInst("LD8go", <<Reg(g), Reg(p), Imm(d)>>, "loc1") :
     g \in IndexHalves, p \in PointerRegs, d \in MemDisplacements}
  \cup {MCInst("LD8og", <<Reg(p), Imm(d), Reg(g)>>, "loc1") :
          g \in IndexHalves, p \in PointerRegs, d \in MemDisplacements}
  \cup {MCInst("LD8gp", <<Reg(g), Reg(p)>>, "loc1") :
          g \in IndexHalves, p \in PointerRegs}
  \cup {MCInst("LD8pg", <<Reg(p), Reg(g)>>, "loc1") :
          g \in IndexHalves, p \in PointerRegs}

\* the pointer register and the displacement of a memory form
PointerOf(I) ==
  IF I.opcode \in {"LD8go", "LD8gp"} THEN I.Operands[2].reg
  ELSE I.Operands[1].reg

DisplacementOf(I) ==
  CASE I.opcode = "LD8go" -> ((I.Operands[3].imm + 128) % 256) - 128
    [] I.opcode = "LD8og" -> ((I.Operands[2].imm + 128) % 256) - 128
    [] OTHER -> 0

\* the address the instruction accesses, from the registers r
AddressOf(I, r) ==
  (256 * r[Halves(PointerOf(I))[1]] + r[Halves(PointerOf(I))[2]]
     + DisplacementOf(I)) % 65536

\* how far above the accessed address the stack pointer stands at entry:
\* on it, up to four bytes above it, and far from it
StackGaps == {0, 1, 2, 3, 4, 5, 4096}

\* the Z80 of valuation k with the stack pointer at sp; r0 and sp0 keep
\* the registers and the stack pointer as they were loaded
MemLoaded(k, bytes, sp) ==
  LET r == [q \in Regs8 |-> RegValue(k, q)]
  IN [on |-> TRUE, k |-> k, code |-> bytes, pc |-> 0, halt |-> FALSE,
      r |-> r, r0 |-> r, cf |-> Carry(k), sp |-> sp, sp0 |-> sp,
      mem |-> [a \in {} |-> 0]]

CallMem ==
  /\ ncalls = 0
  /\ \E I \in MemInstructions :
       Call(I, MCII_get(I.opcode, I.Operands, "Z80Mode"))

BootMem ==
  /\ phase = "returned"
  /\ ~cpu.on
  /\ \E k \in 1..NumValuations, gap \in StackGaps :
       cpu' = MemLoaded(k, SubSeq(OS, Len(OS0) + 1, Len(OS)),
                        (AddressOf(MI, [q \in Regs8 |-> RegValue(k, q)]) + gap)
                          % 65536)
  /\ UNCHANGED <<cfg, OS, Fixups, phase, msg, MI, Desc, CurByte, OS0,
                 Fixups0, ncalls, reloc, hist>>

NextMem == CallMem \/ BootMem \/ Step

SpecMem == Init /\ [][NextMem]_vars

\* ------------------------------------------------------------------------
\* Every synthetic expansion, then run on the Z80
\* ------------------------------------------------------------------------

StackInstructions == ExecInstructions \cup MemInstructions \cup LeaInstructions

CallStack ==
  /\ ncalls = 0
  /\ \E I \in StackInstructions :
       Call(I, MCII_get(I.opcode, I.Operands, "Z80Mode"))

\* the Z80 of valuation k with the stack pointer at sp, flags included
StackLoaded(k, bytes, sp) ==
  LET r == [q \in Regs8 |-> RegValue(k, q)]
  IN [on |-> TRUE, k |-> k, code |-> bytes, pc |-> 0, halt |-> FALSE,
      r |-> r, r0 |-> r, cf |-> Carry(k), fx |-> FlagValue(k),
      sp |-> sp, sp0 |-> sp, mem |-> [a \in {} |-> 0]]

\* load the bytes the call emitted; a memory form finds the stack pointer
\* on, just above, or far from the address it accesses
BootStack ==
  /\ phase = "returned"
  /\ ~cpu.on
  /\ \E k \in 1..NumValuations, gap \in StackGaps :
       cpu' = StackLoaded(k, SubSeq(OS, Len(OS0) + 1, Len(OS)),
                IF MI.opcode \in {"LD8go", "LD8og", "LD8gp", "LD8pg"}
                  THEN (AddressOf(MI, [q \in Regs8 |-> RegValue(k, q)]) + gap)
                         % 65536
                  ELSE StackPointer(k))
  /\ UNCHANGED <<cfg, OS, Fixups, phase, msg, MI, Desc, CurByte, OS0,
                 Fixups0, ncalls, reloc, hist>>

NextStack == CallStack \/ BootStack \/ Step

SpecStack == Init /\ [][NextStack]_vars

\* ------------------------------------------------------------------------
\* LEA16ro on displacements below zero, then run on the Z80
\* ------------------------------------------------------------------------

NegativeDisplacements == {-128, -127, -64, -2, -1}

SignedLeaInstructions ==
  {MCInst("LEA16ro", <<Reg(d), Reg(b), Imm(v)>>, "loc1") :
     d \in Regs16, b \in {"IX", "IY", "HL"}, v \in NegativeDisplacements}

CallSignedLea ==
  /\ ncalls = 0
  /\ \E I \in SignedLeaInstructions :
       Call(I, MCII_get(I.opcode, I.Operands, "Z80Mode"))

NextSignedLea == CallSignedLea \/ BootLea \/ Step

SpecSignedLea == Init /\ [][NextSignedLea]_vars

\* ------------------------------------------------------------------------
\* Properties
\* ------------------------------------------------------------------------

Called == phase # "idle"

Returned == phase = "returned"

\* the bytes and the fixups the last call appended
Emitted == SubSeq(OS, Len(OS0) + 1, Len(OS))

Appended == SubSeq(Fixups, Len(Fixups0) + 1, Len(Fixups))

SinksUntouched == OS = OS0 /\ Fixups = Fixups0

\* C8: an instruction whose descriptor mode is EZ80Mode is rejected with the
\* EZ80 error, whatever its opcode and operands (so before the operand
\* count, the operand kinds or the opcode are looked at), and the call
\* appends no byte and no fixup.
C8_EZ80Rejected ==
  (Called /\ Desc.Mode = "EZ80Mode") =>
    /\ phase = "fatal"
    /\ msg = "EZ80 machine instructions not supported (yet?)"
    /\ SinksUntouched

\* an EZ80-mode CALL16 with an immediate target, which Z80 mode accepts
C8_Witness ==
  /\ phase = "fatal"
  /\ Desc.Mode = "EZ80Mode"
  /\ MI.opcode = "CALL16"
  /\ MI.Operands = <<Imm(3)>>

\* ------------------------------------------------------------------------

IsExprOperand(i) == Len(MI.Operands) > i /\ isExpr(Operands(MI, i))

IsImmOperand(i) == Len(MI.Operands) > i /\ isImm(Operands(MI, i))

\* the one fixup a pseudo jump records: at offset 1, bound to operand 0
JumpFixup(kind) ==
  <<MCFixup(1, getExpr(Operands(MI, 0)), kind, MI.loc)>>

\* C4: every fixup an accepted instruction appends records the count of
\* bytes the instruction had emitted before its placeholder, and the
\* placeholder is there: ceil(W/8) bytes of the instruction, W the bit width
\* of the kind in the catalog, all 00, from that offset to the end.
C4_FixupOffsets ==
  Returned =>
    \A i \in 1..Len(Appended) :
      LET f == Appended[i]
          n == (getFixupKindInfo(f.kind).bits + 7) \div 8
      IN /\ f.offset + n = Len(Emitted)
         /\ CurByte = Len(Emitted)
         /\ \A k \in 1..n : Emitted[f.offset + k] = 0

\* LD16mo with an expression on sinks that already hold a byte and a fixup
C4_Witness ==
  /\ Returned
  /\ MI.opcode = "LD16mo"
  /\ IsExprOperand(0)
  /\ OS0 # <<>>
  /\ Len(Appended) = 1
  /\ Appended[1].offset = 2

\* C5: a call that fails leaves both sinks as they were when it began.
C5_FailureLeavesSinks == phase = "fatal" => SinksUntouched

\* C6: an opcode with a bit index or a condition code is accepted exactly
\* when that immediate is in 0..7 (the other operands being of the form's
\* shape).
C6_IndexRange == Called => (Returned <=> IndexValue \in 0..7)

\* C7: an implemented opcode is rejected whenever the operand count is not
\* the count its form takes.
C7_OperandCount ==
  (Called /\ MI.opcode \in ImplementedOpcodes
          /\ Len(MI.Operands) # OperandCount(MI.opcode)) => phase = "fatal"

\* C9: in the default configuration JQ <expr> emits C3 00 00 and
\* JQCC <expr>, cc with cc in 0..7 emits C2 + 8*cc, 00, 00; each appends one
\* fixup_16 at offset 1 with the expression and the instruction's location.
C9_LongJumps ==
  (Called /\ cfg = DefaultConfig) =>
    /\ (MI.opcode = "JQ" /\ Len(MI.Operands) = 1 /\ IsExprOperand(0)) =>
         /\ Returned
         /\ Emitted = <<195, 0, 0>>
         /\ Appended = JumpFixup("fixup_16")
    /\ (MI.opcode = "JQCC" /\ Len(MI.Operands) = 2 /\ IsExprOperand(0)
          /\ IsImmOperand(1) /\ getImm(Operands(MI, 1)) \in 0..7) =>
         /\ Returned
         /\ Emitted = <<194 + 8 * getImm(Operands(MI, 1)), 0, 0>>
         /\ Appended = JumpFixup("fixup_16")

\* JQCC with condition code 7 at the second location, on used sinks
C9_Witness ==
  /\ Returned
  /\ cfg = DefaultConfig
  /\ MI.opcode = "JQCC"
  /\ getImm(Operands(MI, 1)) = 7
  /\ MI.loc = "loc2"
  /\ OS0 # <<>>
  /\ Emitted = <<250, 0, 0>>

\* C10: with short-jumps (EMIT_JR_INSTEAD_OF_JP) on, JQ <expr> emits 18 00
\* and JQCC <expr>, cc is rejected for cc outside 0..3 and else emits
\* 20 + 8*cc, 00, each with one fixup_8_pcrel at offset 1; with both flags
\* off no call produces a short form.
C10_ShortJumps ==
  /\ (Called /\ cfg.EMIT_JR_INSTEAD_OF_JP) =>
       /\ (MI.opcode = "JQ" /\ Len(MI.Operands) = 1 /\ IsExprOperand(0)) =>
            /\ Returned
            /\ Emitted = <<24, 0>>
            /\ Appended = JumpFixup("fixup_8_pcrel")
       /\ (MI.opcode = "JQCC" /\ Len(MI.Operands) = 2 /\ IsExprOperand(0)
             /\ IsImmOperand(1)) =>
            IF getImm(Operands(MI, 1)) \in 0..3
              THEN /\ Returned
                   /\ Emitted = <<32 + 8 * getImm(Operands(MI, 1)), 0>>
                   /\ Appended = JumpFixup("fixup_8_pcrel")
              ELSE phase = "fatal"
  /\ (Returned /\ cfg = DefaultConfig /\ MI.opcode \in PseudoOpcodes) =>
       /\ Len(Emitted) = 3
       /\ \A i \in 1..Len(Appended) : Appended[i].kind # "fixup_8_pcrel"

\* ------------------------------------------------------------------------

\* the Z80 has run the emitted bytes to their end
Finished == cpu.on /\ ~cpu.halt /\ cpu.pc = Len(cpu.code)

\* the register operand at index i is an index half
IsHalfOperand(i) ==
  /\ Len(MI.Operands) > i
  /\ isReg(Operands(MI, i))
  /\ getReg(Operands(MI, i)) \in IndexHalves

\* C1: for LD8gg/LD8xx/LD8yy dst, src with an index half among dst and src
\* the call emits bytes, the Z80 decodes every one of them, and at their
\* end dst holds the initial value of src while every other 8-bit register
\* (so HL, DE and the other halves of IX and IY) and SP hold their initial
\* values.
C1_LoadIndexHalf ==
  (Called /\ MI.opcode \in LoadForms
          /\ (IsHalfOperand(0) \/ IsHalfOperand(1))) =>
    LET dst == getReg(Operands(MI, 0))
        src == getReg(Operands(MI, 1))
    IN /\ Returned
       /\ cpu.on => ~cpu.halt
       /\ Finished =>
            /\ cpu.r[dst] = RegValue(cpu.k, src)
            /\ \A q \in Regs8 \ {dst} : cpu.r[q] = RegValue(cpu.k, q)
            /\ cpu.sp = StackPointer(cpu.k)

\* LD IXH, IYL run to its end with the stack pointer wrapping
C1_Witness ==
  /\ Finished
  /\ MI.opcode = "LD8gg"
  /\ MI.Operands = <<Reg("IXH"), Reg("IYL")>>
  /\ cpu.k = 2
  /\ cpu.r["IXH"] = RegValue(2, "IYL")
  /\ cpu.r["IXH"] # RegValue(2, "IXH")
  /\ Len(cpu.code) = 14

\* the operand index of the register a form works on
TargetIndex == IF MI.opcode \in BitWriteForms \cup {"BIT8bg"} THEN 1 ELSE 0

\* the prefix byte of the index register a half belongs to
PrefixOf(half) == IF half \in {"IXH", "IXL"} THEN 221 ELSE 253

\* H for a high half, L for a low half
ShuttleOf(half) == IF half \in {"IXH", "IYH"} THEN "H" ELSE "L"

\* what the operation named by the opcode leaves in a register holding v
Result(v, cf) ==
  CASE MI.opcode = "LD8ri" -> getImm(Operands(MI, 1)) % 256
    [] MI.opcode = "INC8r" -> (v + 1) % 256
    [] MI.opcode = "DEC8r" -> (v - 1) % 256
    [] MI.opcode = "RLC8r" -> ((2 * v) % 256) + (v \div 128)
    [] MI.opcode = "RL8r" -> ((2 * v) % 256) + cf
    [] MI.opcode = "RRC8r" -> (v \div 2) + 128 * (v % 2)
    [] MI.opcode = "RR8r" -> (v \div 2) + 128 * cf
    [] MI.opcode = "SLA8r" -> (2 * v) % 256
    [] MI.opcode = "SRA8r" -> (v \div 2) + 128 * (v \div 128)
    [] MI.opcode = "SRL8r" -> v \div 2
    [] MI.opcode = "RES8bg" ->
         v - Bit(v, getImm(Operands(MI, 0))) * (2 ^ getImm(Operands(MI, 0)))
    [] MI.opcode = "SET8bg" ->
         v + (1 - Bit(v, getImm(Operands(MI, 0)))) * (2 ^ getImm(Operands(MI, 0)))

LastBytes(bytes, n) == SubSeq(bytes, Len(bytes) - n + 1, Len(bytes))

\* C2: an operation that writes its index half (LD8ri, INC8r, DEC8r, the
\* rotates and shifts, RES8bg, SET8bg) emits bytes that end with
\* E5, DD|FD, E1, E1, and after they have run the half holds the operation's
\* result and HL its initial value.
C2_WriteBack ==
  (Called /\ MI.opcode \in {"LD8ri"} \cup UnaryWriteForms \cup BitWriteForms
          /\ IsHalfOperand(TargetIndex)) =>
    LET half == getReg(Operands(MI, TargetIndex))
    IN /\ Returned
       /\ Len(Emitted) >= 4
       /\ LastBytes(Emitted, 4) = <<229, PrefixOf(half), 225, 225>>
       /\ cpu.on => ~cpu.halt
       /\ Finished =>
            /\ cpu.r[half] = Result(RegValue(cpu.k, half), Carry(cpu.k))
            /\ cpu.r["H"] = RegValue(cpu.k, "H")
            /\ cpu.r["L"] = RegValue(cpu.k, "L")

\* the same for the forms that do write back
C2_WriteBackOthers ==
  (Called /\ MI.opcode \in {"LD8ri"} \cup UnaryWriteForms
          /\ IsHalfOperand(TargetIndex)) =>
    LET half == getReg(Operands(MI, TargetIndex))
    IN /\ Returned
       /\ Len(Emitted) >= 4
       /\ LastBytes(Emitted, 4) = <<229, PrefixOf(half), 225, 225>>
       /\ cpu.on => ~cpu.halt
       /\ Finished =>
            /\ cpu.r[half] = Result(RegValue(cpu.k, half), Carry(cpu.k))
            /\ cpu.r["H"] = RegValue(cpu.k, "H")
            /\ cpu.r["L"] = RegValue(cpu.k, "L")

\* the encoding of a read-only operation on H or L
ReadEncoding(half) ==
  LET low == IF ShuttleOf(half) = "H" THEN 4 ELSE 5
  IN CASE MI.opcode = "ADD8ar" -> <<128 + low>>
       [] MI.opcode = "ADC8ar" -> <<136 + low>>
       [] MI.opcode = "SUB8ar" -> <<144 + low>>
       [] MI.opcode = "SBC8ar" -> <<152 + low>>
       [] MI.opcode = "AND8ar" -> <<160 + low>>
       [] MI.opcode = "XOR8ar" -> <<168 + low>>
       [] MI.opcode = "OR8ar" -> <<176 + low>>
       [] MI.opcode = "CP8ar" -> <<184 + low>>
       [] MI.opcode = "BIT8bg" ->
            <<203, 64 + 8 * getImm(Operands(MI, 0)) + low>>

\* C3: a read-only operation on an index half (the eight accumulator
\* operations and BIT8bg) emits exactly E5, DD|FD, E5, E1, the operation on
\* H or L, E1: no write-back of the index register.
C3_ReadOnly ==
  (Called /\ MI.opcode \in ReadForms \cup {"BIT8bg"}
          /\ IsHalfOperand(TargetIndex)) =>
    LET half == getReg(Operands(MI, TargetIndex))
    IN /\ Returned
       /\ Emitted = <<229, PrefixOf(half), 229, 225>> \o ReadEncoding(half)
                      \o <<225>>

\* the same for the eight accumulator operations alone
C3_ReadOnlyAccumulator ==
  (Called /\ MI.opcode \in ReadForms /\ IsHalfOperand(TargetIndex)) =>
    LET half == getReg(Operands(MI, TargetIndex))
    IN /\ Returned
       /\ Emitted = <<229, PrefixOf(half), 229, 225>> \o ReadEncoding(half)
                      \o <<225>>

\* ------------------------------------------------------------------------

\* C11: an accepted call of an opcode with a 16-bit immediate field whose
\* field operand is the immediate v ends its bytes with (v mod 65536) mod 256
\* and then (v mod 65536) div 256, and appends no fixup.
C11_LowByteFirst ==
  (Returned /\ MI.opcode \in Imm16Opcodes
            /\ IsImmOperand(AddressIndex(MI.opcode))) =>
    LET v == getImm(Operands(MI, AddressIndex(MI.opcode)))
    IN /\ Len(Emitted) >= 3
       /\ LastBytes(Emitted, 2) = <<(v % 65536) % 256, (v % 65536) \div 256>>
       /\ Appended = <<>>

\* LD16mo (nn), IY with nn = 70196 = 65536 + 0x1234: FD 22 34 12
C11_Witness ==
  /\ Returned
  /\ MI.opcode = "LD16mo"
  /\ MI.Operands = <<Imm(70196), Reg("IY")>>
  /\ Emitted = <<253, 34, 52, 18>>
  /\ Fixups = <<>>

\* code(r) of the r-table: B=0, C=1, D=2, E=3, H=4, L=5, A=7
RCode(r) == (CHOOSE i \in 1..Len(RTable) : RTable[i] = r) - 1

PlainRegs8 == {"B", "C", "D", "E", "H", "L", "A"}

\* C12: for the n-th family of ADD, ADC, SUB, SBC, AND, XOR, OR, CP, with
\* base 0x80 + 8*(n-1): the ar form on r in {B,C,D,E,H,L,A} emits the one
\* byte base + code(r); the ap form is accepted for HL alone and emits
\* base + 6; the ao form on IX|IY and d emits DD|FD, base + 6, d mod 256.
C12_AluEncodings ==
  Called =>
    \A n \in 1..Len(AluFamilies) :
      LET base == 128 + 8 * (n - 1)
          r == getReg(Operands(MI, 0))
      IN /\ (MI.opcode = AluFamilies[n].ar /\ r \in PlainRegs8) =>
              /\ Returned
              /\ Emitted = <<base + RCode(r)>>
              /\ Appended = <<>>
         /\ MI.opcode = AluFamilies[n].ap =>
              /\ Returned <=> r = "HL"
              /\ Returned => Emitted = <<base + 6>> /\ Appended = <<>>
         /\ (MI.opcode = AluFamilies[n].ao /\ r \in {"IX", "IY"}) =>
              /\ Returned
              /\ Emitted = <<IF r = "IX" THEN 221 ELSE 253, base + 6,
                             getImm(Operands(MI, 1)) % 256>>
              /\ Appended = <<>>

\* CP (IY-128): FD BE 80
C12_Witness ==
  /\ Returned
  /\ MI.opcode = "CP8ao"
  /\ MI.Operands = <<Reg("IY"), Imm(-128)>>
  /\ Emitted = <<253, 190, 128>>

\* C13: for the n-th of BIT, RES, SET, with base X = 0x40 * n, and a bit
\* index b in 0..7: the register form on r in {B,C,D,E,H,L,A} emits
\* CB, X + 8*b + code(r); the (HL) form emits CB, X + 8*b + 6; the indexed
\* form on IX|IY and d emits DD|FD, CB, d mod 256, X + 8*b + 6.
C13_BitEncodings ==
  Called =>
    \A n \in 1..Len(BitFamilies) :
      LET X == 64 * n
          b == getImm(Operands(MI, 0))
          r == getReg(Operands(MI, 1))
      IN /\ (MI.opcode = BitFamilies[n].bg /\ r \in PlainRegs8) =>
              /\ Returned
              /\ Emitted = <<203, X + 8 * b + RCode(r)>>
              /\ Appended = <<>>
         /\ (MI.opcode = BitFamilies[n].bp /\ r = "HL") =>
              /\ Returned
              /\ Emitted = <<203, X + 8 * b + 6>>
              /\ Appended = <<>>
         /\ (MI.opcode = BitFamilies[n].bo /\ r \in {"IX", "IY"}) =>
              /\ Returned
              /\ Emitted = <<IF r = "IX" THEN 221 ELSE 253, 203,
                             getImm(Operands(MI, 2)) % 256, X + 8 * b + 6>>
              /\ Appended = <<>>

\* BIT 3, (IY+7): FD CB 07 5E
C13_Witness ==
  /\ Returned
  /\ MI.opcode = "BIT8bo"
  /\ MI.Operands = <<Imm(3), Reg("IY"), Imm(7)>>
  /\ Emitted = <<253, 203, 7, 94>>

\* the 16-bit value of a register pair in a register file
PairValue(r, rr) == 256 * r[Halves(rr)[1]] + r[Halves(rr)[2]]

\* C14: for LEA16ro dest, base, d with dest in {BC, DE, HL, IX, IY}, base in
\* {IX, IY} and d in 0..255 the call emits bytes the Z80 decodes, and at
\* their end dest = (base + d) mod 65536 while A, the flags, SP and every
\* register outside dest hold their initial values.
C14_LeaExecutes ==
  (Called /\ MI.opcode = "LEA16ro"
          /\ getReg(Operands(MI, 0)) \in {"BC", "DE", "HL", "IX", "IY"}
          /\ getReg(Operands(MI, 1)) \in {"IX", "IY"}
          /\ getImm(Operands(MI, 2)) \in 0..255) =>
    LET dest == getReg(Operands(MI, 0))
        base == getReg(Operands(MI, 1))
        d == getImm(Operands(MI, 2))
    IN /\ Returned
       /\ cpu.on => ~cpu.halt
       /\ Finished =>
            /\ PairValue(cpu.r, dest) = (PairValue(cpu.r0, base) + d) % 65536
            /\ \A q \in Regs8 \ {Halves(dest)[1], Halves(dest)[2]} :
                 cpu.r[q] = cpu.r0[q]
            /\ cpu.fx = FlagValue(cpu.k)
            /\ cpu.cf = Carry(cpu.k)
            /\ cpu.sp = StackPointer(cpu.k)

\* LEA IY, (IX+255) from IX = FFF1h: IY wraps to 00F0h, IX is restored
C14_Witness ==
  /\ Finished
  /\ MI.Operands = <<Reg("IY"), Reg("IX"), Imm(255)>>
  /\ cpu.r0["IXH"] = 255
  /\ PairValue(cpu.r0, "IX") + 255 >= 65536
  /\ PairValue(cpu.r, "IY") = PairValue(cpu.r0, "IX") - 65281
  /\ PairValue(cpu.r, "IX") = PairValue(cpu.r0, "IX")
  /\ Len(cpu.code) = 18

\* C15: a call on one of the opcodes the switch names only to reject
\* (ADC16SP, ADC16aa, ADC16ao, JP16, JP16CC, JR, JRCC, LD16or, LD16pr,
\* LD16ro, LD16rp) fails with "Not implemented." whatever the operands, and
\* appends no byte and no fixup.
C15_NotImplemented ==
  (Called /\ MI.opcode \in NotImplementedOpcodes) =>
    /\ phase = "fatal"
    /\ msg = "Not implemented."
    /\ SinksUntouched

\* JRCC on a well-formed operand pair
C15_Witness ==
  /\ phase = "fatal"
  /\ MI.opcode = "JRCC"
  /\ MI.Operands = <<Expr("SymbolRef", "sym"), Imm(0)>>
  /\ msg = "Not implemented."
  /\ OS = <<>>

\* ------------------------------------------------------------------------
\* C16: shouldForceRelocation returns true if and only if the fixup kind is
\* one of fixup_8_dis, fixup_8_pcrel, fixup_16, for the 13 target kinds and
\* for the generic kinds, whatever the assembler state and the target value.
\* ------------------------------------------------------------------------

ForcedKinds == {"fixup_8_dis", "fixup_8_pcrel", "fixup_16"}

C16_ForceRelocation ==
  reloc.fn = "shouldForceRelocation" =>
    (reloc.result = TRUE <=> reloc.Fixup.kind \in ForcedKinds)

\* a forced kind asked about after the encoder filled the sinks
C16_Witness ==
  /\ reloc.fn = "shouldForceRelocation"
  /\ reloc.Fixup.kind = "fixup_8_dis"
  /\ reloc.result = TRUE
  /\ reloc.Asm.Fixups # <<>>
  /\ reloc.Target = MCValue("", 5)

\* ------------------------------------------------------------------------
\* C17: getRelocType's assertion accepts a call exactly when IsPCRel is
\* true if and only if the fixup kind is fixup_8_pcrel: fixup_8_pcrel with
\* IsPCRel false is rejected, and so is every other kind with IsPCRel true.
\* ------------------------------------------------------------------------

\* the kinds getRelocType has a case label for
MappedKinds == TargetKinds \cup {"FK_Data_1", "FK_Data_2", "FK_Data_4"}

C17_AssertPCRel ==
  (reloc.fn = "getRelocType" /\ reloc.Fixup.kind \in MappedKinds) =>
    (~reloc.result.fatal <=>
       (reloc.IsPCRel <=> reloc.Fixup.kind = "fixup_8_pcrel"))

\* ------------------------------------------------------------------------
\* C18: getRelocType returns a defined relocation code for each of the 13
\* target kinds and for FK_Data_1, FK_Data_2, FK_Data_4, the generic kinds
\* returning the codes of fixup_8, fixup_16, fixup_32 (R_Z80_8, R_Z80_16,
\* R_Z80_32); every kind the encoder emits maps to a defined code, and any
\* other kind is a fatal error.
\* ------------------------------------------------------------------------

\* the relocation code getRelocType gives the same fixup under another kind
CodeOfKind(k) ==
  getRelocType(reloc.Asm, reloc.Target, [reloc.Fixup EXCEPT !.kind = k],
               reloc.IsPCRel).type

\* IsPCRel as the catalog gives it for a target kind
CatalogPCRel(k) == BitAnd(getFixupKindInfo(k).flags, FKF_IsPCRel) # 0

C18_RelocTypes ==
  reloc.fn = "getRelocType" =>
    LET k == reloc.Fixup.kind
        r == reloc.result
    IN /\ (k \in MappedKinds /\ (k = "fixup_8_pcrel" => reloc.IsPCRel)) =>
            (~r.fatal /\ r.type \in RelocationCodes)
       /\ k = "FK_Data_1" => (r.type = "R_Z80_8" /\ r.type = CodeOfKind("fixup_8"))
       /\ k = "FK_Data_2" => (r.type = "R_Z80_16" /\ r.type = CodeOfKind("fixup_16"))
       /\ k = "FK_Data_4" => (r.type = "R_Z80_32" /\ r.type = CodeOfKind("fixup_32"))
       /\ \A i \in 1..Len(Fixups) :
            /\ Fixups[i].kind \in TargetKinds
            /\ (reloc.Fixup = Fixups[i] /\ reloc.IsPCRel = CatalogPCRel(k)) =>
                 (~r.fatal /\ r.type \in RelocationCodes)
       /\ k \notin MappedKinds =>
            /\ r.fatal
            /\ r.msg \in {"Invalid fixup kind! sym",
                          "Invalid fixup kind! (not even a symref!)"}
            /\ phase = "fatal"

\* the fixup a short jump left in the sink is mapped to its code
C18_Witness ==
  /\ reloc.fn = "getRelocType"
  /\ Called
  /\ Len(Fixups) > 0
  /\ reloc.Fixup = Fixups[Len(Fixups)]
  /\ reloc.Fixup.kind = "fixup_8_pcrel"
  /\ reloc.result = Return("R_Z80_8_PCREL")

\* ------------------------------------------------------------------------
\* C19: for every instruction that encodeInstruction accepts, the number of
\* bytes appended by that call is at most 32.
\* ------------------------------------------------------------------------

C19_LengthBound == Returned => Len(Emitted) <= 32

\* one of the long expansions was accepted
C19_Witness ==
  /\ Returned
  /\ MI.opcode = "LEA16ro"
  /\ MI.Operands[1] = Reg("HL")
  /\ Len(Emitted) = 17

\* ------------------------------------------------------------------------
\* C20: among all accepted instructions the longest encoding is that of the
\* cross-index half load (LD of an IX half from an IY half or the reverse),
\* at most 20 bytes; no other accepted instruction, LEA16ro included,
\* encodes to more bytes than it.
\* ------------------------------------------------------------------------

HalfLoadOpcodes == {"LD8gg", "LD8xx", "LD8yy"}

\* a load between a half of IX and a half of IY
IsCrossIndexLoad ==
  /\ MI.opcode \in HalfLoadOpcodes
  /\ Len(MI.Operands) = 2
  /\ \/ MI.Operands[1] \in {Reg("IXH"), Reg("IXL")} /\ MI.Operands[2] \in {Reg("IYH"), Reg("IYL")}
     \/ MI.Operands[1] \in {Reg("IYH"), Reg("IYL")} /\ MI.Operands[2] \in {Reg("IXH"), Reg("IXL")}

\* the number of bytes of LD IXH, IYL
CrossIndexLength ==
  Len(encodeInstruction(MCInst("LD8gg", <<Reg("IXH"), Reg("IYL")>>, "loc1"),
                        MCII_get("LD8gg", <<Reg("IXH"), Reg("IYL")>>, "Z80Mode"),
                        DefaultConfig, <<>>, <<>>).OS)

\* the claim as stated
C20_CrossIndexLongest ==
  Returned => (Len(Emitted) <= CrossIndexLength /\ CrossIndexLength <= 20)

\* LEA16ro between the two index registers
IsCrossIndexLea ==
  /\ MI.opcode = "LEA16ro"
  /\ MI.Operands[1] \in {Reg("IX"), Reg("IY")}
  /\ MI.Operands[2] \in {Reg("IX"), Reg("IY")}
  /\ MI.Operands[1] # MI.Operands[2]

\* the claim as amended: the longest encoding is the 18 bytes of LEA16ro
\* from one index register into the other; the cross-index half load takes
\* 14 bytes and only LEA16ro into another register than its base is longer
C20_LongestEncoding ==
  Returned =>
    /\ Len(Emitted) <= 18
    /\ IsCrossIndexLoad => Len(Emitted) = 14
    /\ Len(Emitted) > 14 =>
         (MI.opcode = "LEA16ro" /\ MI.Operands[1] # MI.Operands[2])
    /\ Len(Emitted) = 18 <=> IsCrossIndexLea

C20_Witness ==
  /\ Returned
  /\ MI.opcode = "LEA16ro"
  /\ MI.Operands[1] = Reg("IY")
  /\ MI.Operands[2] = Reg("IX")
  /\ Len(Emitted) = 18

\* ------------------------------------------------------------------------
\* C21: after any sequence of successful encodeInstruction calls on the
\* same pair of sinks, the byte sink is its initial content followed by the
\* concatenation, in call order, of what each instruction produces when
\* encoded alone, and likewise the fixup sink, every fixup's offset counted
\* from the start of its own instruction; earlier content is never modified.
\* ------------------------------------------------------------------------

\* the instruction of a call encoded alone, on empty sinks
Alone(c) == encodeInstruction(c.MI, c.Desc, cfg, <<>>, <<>>)

RECURSIVE AloneBytes(_)
AloneBytes(calls) ==
  IF calls = <<>> THEN <<>> ELSE Alone(Head(calls)).OS \o AloneBytes(Tail(calls))

RECURSIVE AloneFixups(_)
AloneFixups(calls) ==
  IF calls = <<>> THEN <<>>
  ELSE Alone(Head(calls)).Fixups \o AloneFixups(Tail(calls))

C21_Concatenation ==
  phase # "fatal" =>
    /\ OS = hist.OS \o AloneBytes(hist.calls)
    /\ Fixups = hist.Fixups \o AloneFixups(hist.calls)

\* three calls on sinks that were not empty, the last one leaving a fixup
C21_Witness ==
  /\ ncalls = MaxCalls
  /\ Returned
  /\ hist.OS # <<>>
  /\ Len(OS0) > Len(hist.OS) + 3
  /\ Appended # <<>>
  /\ Appended[1].offset = 1
  /\ Len(Fixups) > 3

\* ------------------------------------------------------------------------
\* C22: ADD16aa with two register operands fails unless both are the same
\* register and that register is HL, IX or IY; on success it emits the
\* optional prefix (none for HL, DD for IX, FD for IY) followed by 0x29.
\* ADD16ao fails unless its first two operands are the same register in
\* {HL, IX, IY} and its third is BC or DE.
\* ------------------------------------------------------------------------

AddTargets == {Reg("HL"), Reg("IX"), Reg("IY")}

\* the prefix bytes that select HL, IX or IY
AddPrefix(a) ==
  IF a = Reg("IX") THEN <<\hdd>> ELSE IF a = Reg("IY") THEN <<\hfd>> ELSE <<>>

\* the operands ADD16aa is allowed on
GoodAdd16aa ==
  /\ Len(MI.Operands) = 2
  /\ MI.Operands[1] \in AddTargets
  /\ MI.Operands[2] = MI.Operands[1]

\* the operands ADD16ao is allowed on
GoodAdd16ao ==
  /\ Len(MI.Operands) = 3
  /\ MI.Operands[1] \in AddTargets
  /\ MI.Operands[2] = MI.Operands[1]
  /\ MI.Operands[3] \in {Reg("BC"), Reg("DE")}

C22_SameRegister ==
  /\ (Called /\ MI.opcode = "ADD16aa") =>
       /\ Returned <=> GoodAdd16aa
       /\ ~Returned => phase = "fatal"
       /\ Returned => Emitted = AddPrefix(MI.Operands[1]) \o <<\h29>>
  /\ (Called /\ MI.opcode = "ADD16ao") =>
       /\ Returned <=> GoodAdd16ao
       /\ ~Returned => phase = "fatal"

\* ADD IX, IX accepted
C22_Witness ==
  /\ Returned
  /\ MI.opcode = "ADD16aa"
  /\ MI.Operands = <<Reg("IX"), Reg("IX")>>
  /\ Emitted = <<\hdd, \h29>>

\* ------------------------------------------------------------------------
\* C23: for each of the 13 target fixup kinds getFixupKindInfo returns the
\* entry named after that kind's enumerator (table position = enumerator
\* value minus FirstTargetFixupKind), with bit offset 0, bit width 8 for
\* fixup_8, fixup_8_dis, fixup_8_pcrel, 16 for fixup_16 and fixup_16_be, 24
\* for fixup_24, 32 for fixup_32, fixup_byte0..3 and fixup_word0..1, and the
\* PC-relative flag on fixup_8_pcrel only; kinds below FirstTargetFixupKind
\* are delegated to the generic catalog.
\* ------------------------------------------------------------------------

\* the bit width the claim gives a target kind
ClaimedBits(k) ==
  CASE k \in {"fixup_8", "fixup_8_dis", "fixup_8_pcrel"} -> 8
    [] k \in {"fixup_16", "fixup_16_be"} -> 16
    [] k = "fixup_24" -> 24
    [] OTHER -> 32

C23_Catalog ==
  reloc.fn = "getFixupKindInfo" =>
    LET k == reloc.Kind
        r == reloc.result
    IN /\ k \in TargetKinds =>
            /\ r.name = k
            /\ r.offset = 0
            /\ r.bits = ClaimedBits(k)
            /\ (BitAnd(r.flags, FKF_IsPCRel) # 0) <=> (k = "fixup_8_pcrel")
       /\ k \in GenericFixupKinds => r = MCAsmBackend_getFixupKindInfo(k)

\* the entry of fixup_16, asked for a fixup the encoder left in the sink
C23_Witness ==
  /\ reloc.fn = "getFixupKindInfo"
  /\ reloc.Kind = "fixup_16"
  /\ Len(Fixups) > 0
  /\ Fixups[1].kind = "fixup_16"
  /\ reloc.result.bits = 16

\* ------------------------------------------------------------------------
\* C24: in every indexed (IX|IY + d) form the displacement byte immediately
\* follows the opcode byte and precedes any immediate byte (LD8oi emits
\* DD|FD, 36, d, n), except in the CB-prefixed indexed forms (the rotate and
\* shift o-forms and BIT8bo, RES8bo, SET8bo), where the order is DD|FD, CB,
\* d, opcode.
\* ------------------------------------------------------------------------

\* the indexed forms whose opcode byte comes right after the prefix
PlainIndexedOpcodes ==
  AluIndexedOpcodes \cup StepIndexedOpcodes \cup {"LD8oi", "LD8go", "LD8og"}

\* the indexed forms of the CB page
PagedIndexedOpcodes == RotateIndexedOpcodes \cup BitIndexedOpcodes

\* where the index register and the displacement stand among the operands
IndexOperand(opc) == IF opc \in BitIndexedOpcodes \cup {"LD8go"} THEN 2 ELSE 1

DispOperand(opc) == IF opc \in BitIndexedOpcodes \cup {"LD8go"} THEN 3 ELSE 2

IndexPrefix(r) == IF r = Reg("IX") THEN \hdd ELSE \hfd

PrefixBytes == {\hdd, \hfd, \hcb}

\* the operand of LD8go, LD8og that is loaded or stored is an index half
MovesHalf ==
  /\ MI.opcode \in {"LD8go", "LD8og"}
  /\ \E i \in {1, 3} : MI.Operands[i] \in {Reg(h) : h \in IndexHalves}

C24_DisplacementOrder ==
  (Returned /\ MI.opcode \in PlainIndexedOpcodes \cup PagedIndexedOpcodes) =>
    LET p == IndexPrefix(MI.Operands[IndexOperand(MI.opcode)])
        d == MI.Operands[DispOperand(MI.opcode)].imm % 256
    IN CASE MI.opcode = "LD8oi" ->
              Emitted = <<p, \h36, d, MI.Operands[3].imm % 256>>
         [] MI.opcode \in PagedIndexedOpcodes ->
              /\ Len(Emitted) = 4
              /\ SubSeq(Emitted, 1, 3) = <<p, \hcb, d>>
              /\ Emitted[4] \notin PrefixBytes
              /\ Emitted[4] % 8 = 6
         [] MovesHalf ->
              /\ Len(Emitted) = 11
              /\ Emitted[5] = p
              /\ Emitted[6] \notin PrefixBytes
              /\ Emitted[7] = d
         [] OTHER ->
              /\ Len(Emitted) = 3
              /\ Emitted[1] = p
              /\ Emitted[2] \notin PrefixBytes
              /\ Emitted[3] = d

\* LD (IX+5), 0x42
C24_Witness ==
  /\ Returned
  /\ MI.opcode = "LD8oi"
  /\ MI.Operands = <<Reg("IX"), Imm(5), Imm(66)>>
  /\ Emitted = <<\hdd, \h36, 5, \h42>>

\* ------------------------------------------------------------------------
\* C28: for every opcode with an 8-bit immediate or displacement operand
\* (the ai and ao ALU forms, LD8ri, LD8pi, LD8oi, LD8go, LD8og, INC8o, DEC8o,
\* the rotate/shift and BIT/RES/SET o-forms, LEA16ro) every immediate value
\* v is accepted and encoded as the single byte v mod 256: no range check
\* is applied, values congruent mod 256 give identical bytes and values
\* outside -128..255 are truncated, not rejected.
\* ------------------------------------------------------------------------

ByteOpcodes ==
  AluImmOpcodes \cup PlainIndexedOpcodes \cup PagedIndexedOpcodes
  \cup {"LD8ri", "LD8pi", "LEA16ro"}

ReducedOperand(o) == IF o.kind = "Imm" THEN Imm(o.imm % 256) ELSE o

\* the instruction with every immediate brought into 0..255
Reduced(I) ==
  MCInst(I.opcode,
         [i \in 1..Len(I.Operands) |-> ReducedOperand(I.Operands[i])], I.loc)

\* the register operands the opcode of the last call allows
RegistersAllowed ==
  CASE MI.opcode \in AluImmOpcodes \cup {"LD8ri"} -> TRUE
    [] MI.opcode = "LD8pi" -> TRUE
    [] MI.opcode = "LEA16ro" -> MI.Operands[2] \in {Reg("IX"), Reg("IY")}
    [] OTHER -> MI.Operands[IndexOperand(MI.opcode)] \in {Reg("IX"), Reg("IY")}

\* the operands emitted as a byte: every one but the bit index of BIT, RES, SET
ByteOperands ==
  IF MI.opcode \in BitIndexedOpcodes THEN {3} ELSE 1..Len(MI.Operands)

C28_Truncation ==
  (Called /\ MI.opcode \in ByteOpcodes) =>
    /\ Returned <=> RegistersAllowed
    /\ Returned =>
         /\ OS = encodeInstruction(Reduced(MI), Desc, cfg, OS0, Fixups0).OS
         /\ \A i \in ByteOperands :
              MI.Operands[i].kind = "Imm" =>
                \E j \in 1..Len(Emitted) : Emitted[j] = MI.Operands[i].imm % 256
         /\ MI.opcode \in AluImmOpcodes =>
              (Len(Emitted) = 2 /\ Emitted[2] = MI.Operands[1].imm % 256)

\* ADD A, 261 accepted as ADD A, 5
C28_Witness ==
  /\ Returned
  /\ MI.opcode = "ADD8ai"
  /\ MI.Operands = <<Imm(261)>>
  /\ Emitted = <<\hc6, 5>>

\* ------------------------------------------------------------------------
\* C25: for the memory forms on index halves (LD8go and LD8gp with an
\* index-half destination, LD8og and LD8pg with an index-half source, for
\* every pointer register the form accepts) executing the emitted bytes
\* loads into, or stores from, that index half at the address given by the
\* pointer register's value at entry (plus the displacement), and leaves HL,
\* DE, SP, the other half of the index register and the pointer register
\* (where it is not the one written) at their initial values.
\* ------------------------------------------------------------------------

MemForms == {"LD8go", "LD8gp", "LD8og", "LD8pg"}

\* the index half a memory form loads or stores
HalfOf(I) ==
  CASE I.opcode \in {"LD8go", "LD8gp"} -> I.Operands[1].reg
    [] I.opcode = "LD8og" -> I.Operands[3].reg
    [] OTHER -> I.Operands[2].reg

\* the registers a load must leave alone: all but the half it writes
KeptByLoad(I) == Regs8 \ {HalfOf(I)}

C25_MemoryHalves ==
  (Called /\ MI.opcode \in MemForms /\ Returned) =>
    /\ cpu.on => ~cpu.halt
    /\ Finished =>
         LET a == AddressOf(MI, cpu.r0)
             h == HalfOf(MI)
         IN /\ cpu.sp = cpu.sp0
            /\ IF MI.opcode \in {"LD8go", "LD8gp"}
                 THEN /\ cpu.r[h] = Background(a)
                      /\ \A q \in KeptByLoad(MI) : cpu.r[q] = cpu.r0[q]
                 ELSE /\ rd(cpu.mem, a) = cpu.r0[h]
                      /\ cpu.r = cpu.r0

\* ------------------------------------------------------------------------
\* C26  The stack traffic of the synthetic expansions
\* ------------------------------------------------------------------------

\* bytes between the stack pointer and where it stood at entry
StackDepth == (cpu.sp0 - cpu.sp) % 65536

\* the address a store form is asked to write
StoreTargets ==
  IF MI.opcode \in {"LD8og", "LD8pg"} THEN {AddressOf(MI, cpu.r0)} ELSE {}

C27_DefaultFixups ==
  (Returned /\ cfg = DefaultConfig) =>
    /\ Len(Appended) <= 1
    /\ \A i \in 1..Len(Appended) :
         /\ Appended[i].kind = "fixup_16"
         /\ \A Target \in TargetValues :
              /\ shouldForceRelocation(AsmState, Appended[i], Target)
              /\ \A IsPCRel \in BOOLEAN :
                   getRelocType(AsmState, Target, Appended[i], IsPCRel)
                     = Return("R_Z80_16")

\* a default-configuration jump to a symbol has left its fixup
C27_Witness ==
  /\ Returned
  /\ cfg = DefaultConfig
  /\ MI.opcode = "JQ"
  /\ Len(Appended) = 1

\* ------------------------------------------------------------------------
\* C29  The kind of an expression operand
\* ------------------------------------------------------------------------

\* where the opcodes that take an expression look for it (from 1)
ExprIndex(opc) ==
  IF opc \in {"LD16am", "LD16om", "LD16ri"} THEN 2 ELSE 1

\* the last call had an expression where its opcode looks for one
HasExprTarget ==
  /\ Called
  /\ MI.opcode \in ExprOpcodes
  /\ ExprIndex(MI.opcode) <= Len(MI.Operands)
  /\ isExpr(MI.Operands[ExprIndex(MI.opcode)])

TargetExpr == getExpr(MI.Operands[ExprIndex(MI.opcode)])

\* the instruction with every expression operand made a bare symbol reference
AsSymbolRef(I) ==
  [I EXCEPT !.Operands =
     [i \in 1..Len(I.Operands) |->
        IF isExpr(I.Operands[i])
          THEN Expr("SymbolRef", getExpr(I.Operands[i]).sym)
          ELSE I.Operands[i]]]

\* the long form of the opcode is the one compiled in
LongForm ==
  CASE MI.opcode = "JQ" -> ~cfg.EMIT_JR_INSTEAD_OF_JP
    [] MI.opcode = "JQCC" -> ~cfg.EMIT_JRCC_INSTEAD_OF_JPCC
    [] OTHER -> TRUE

\* C29: CALL16CC fails on an expression target that is not a bare symbol
\* reference, and takes a bare symbol reference (condition code in range)
\* with a fixup_16. CALL16, JQ, JQCC, LD16ri, LD16am, LD16ma, LD16mo, LD16om,
\* LD8am and LD8ma never look at the kind: the call is accepted exactly when
\* it is accepted with a bare symbol reference in its place, and an accepted
\* call has appended one fixup for the expression, of kind fixup_16 (for JQ
\* and JQCC: in the long form, which is the one built by default).
C29_ExpressionKinds ==
  HasExprTarget =>
    IF MI.opcode = "CALL16CC"
      THEN /\ getKind(TargetExpr) # "SymbolRef" => phase = "fatal"
           /\ (/\ getKind(TargetExpr) = "SymbolRef"
               /\ Len(MI.Operands) = 2
               /\ isImm(MI.Operands[2])
               /\ uint8_t(getImm(MI.Operands[2])) < 8)
                => (Returned /\ Len(Appended) = 1
                      /\ Appended[1].kind = "fixup_16")
      ELSE /\ (phase = "fatal")
                = encodeInstruction(AsSymbolRef(MI), Desc, cfg, OS0, Fixups0).fatal
           /\ Returned =>
                /\ Len(Appended) = 1
                /\ Appended[1].value = TargetExpr
                /\ LongForm => Appended[1].kind = "fixup_16"

\* CALL16 has taken a target that is not a bare symbol reference
C29_Witness ==
  /\ HasExprTarget
  /\ Returned
  /\ MI.opcode = "CALL16"
  /\ getKind(TargetExpr) = "Binary"
  /\ Len(Appended) = 1

\* ------------------------------------------------------------------------
\* C30  LEA16ro on a displacement below zero
\* ------------------------------------------------------------------------

\* LEA16ro on registers it accepts and a displacement in -128..-1 has run
SignedLeaRan ==
  /\ Called
  /\ MI.opcode = "LEA16ro"
  /\ getReg(Operands(MI, 0)) \in {"BC", "DE", "HL", "IX", "IY"}
  /\ getReg(Operands(MI, 1)) \in {"IX", "IY"}
  /\ getImm(Operands(MI, 2)) \in -128..-1
  /\ Finished

\* C30: for a displacement operand d in -128..-1, running the bytes of
\* LEA16ro dest, base, d leaves dest = (base + d) mod 65536, the address
\* that (IX+d) or (IY+d) accesses for the displacement byte d.
C30_SignedDisplacement ==
  SignedLeaRan =>
    PairValue(cpu.r, getReg(Operands(MI, 0)))
      = (PairValue(cpu.r0, getReg(Operands(MI, 1))) + getImm(Operands(MI, 2)))
          % 65536
====
